---- MODULE Spec2Model ----
(***************************************************************************)
(* A model of the umeshu web toolkit: the radix tree of route templates    *)
(* (package container), the router built on it, the router groups and the  *)
(* engine that attach middleware, and the handler-chain execution of a     *)
(* request context.                                                        *)
(*                                                                         *)
(* Go strings are modelled as sequences of one-character strings, so that  *)
(* strings.Split, strings.Join, strings.HasPrefix and byte indexing are    *)
(* computed as the library computes them: "/a/:x" is <<"/","a","/",":","x">>*)
(* and the empty string is <<>>.  Go's 0-based s[i] is s[i+1] here.        *)
(***************************************************************************)
EXTENDS Integers, Sequences, FiniteSets, TLC

VARIABLES
    trees,      \* router.trees: method -> root node of the method's radix tree
    handlers,   \* router.handlers: method + "-" + pattern -> handler chain
    groups,     \* Engine.groups: the router groups, in creation order
    fatal,      \* TRUE once a registration call has panicked (log.Panic)
    applies,    \* how many times ApplyMiddleware has run
    stale,      \* a route, a group or a middleware was added since it last ran
    lastReg,    \* the last call of a group's GET, POST, ...: its arguments
    spare,      \* for each stored chain, the slots of its backing array that
                \* lie past its length (cap - len of them)
    lookup,     \* the last getRoute call: its arguments and what it returned
    c,          \* the Context of the request being served
    stack,      \* the calls in progress in the request's goroutine, innermost last
    trace,      \* what the request has done so far, in order
    status,     \* "idle", "running", "done" (ServeHTTP returned), "crashed"
                \* (a panic left ServeHTTP)
    shared,     \* the key of the stored chain whose backing array c.handlers
                \* shares, <<>> when it has an array of its own
    parsed,     \* the last parsePattern call: its argument and what it returned
    srv,        \* Engine.shutdown, the http.Server that prepareServer makes and
                \* the goroutine it starts to watch the channel
    store,      \* the inMemory session store: cache, quene and the sessions
    now,        \* time.Now().Unix()
    mu,         \* inMemory.mu: the goroutines holding it to read or to write
    gos,        \* the goroutines calling the store: the call each is in, how
                \* far it has got, its local variables
    Manager,    \* session.Manager, the global session manager
    made,       \* the last NewManager call: its argument and what it returned
    heap,       \* the Contexts that ctxPool.New has allocated, by address
    pool,       \* ctxPool: the addresses put in it and not yet taken out
    held        \* for each request that calls NewContext and Free itself:
                \* the Context it holds and how far it has got

vars == <<trees, handlers, groups, fatal, applies, stale, lastReg, spare,
          lookup, c, stack, trace, status, shared, heap, pool, held,
          parsed, srv, store, now, mu, gos, Manager, made>>

routerVars == <<trees, groups, fatal, applies, stale, lastReg>>
tableVars == <<handlers, spare>>
requestVars == <<c, stack, trace, status, shared>>
poolVars == <<heap, pool, held>>
storeVars == <<store, now, mu, gos>>
managerVars == <<Manager, made>>
otherVars == <<parsed, srv, storeVars, managerVars>>

-----------------------------------------------------------------------------
(* Strings *)

\* strings.HasPrefix(s, p)
HasPrefix(s, p) == Len(p) <= Len(s) /\ SubSeq(s, 1, Len(p)) = p

\* strings.Split(s, sep) for a one-character separator
RECURSIVE Split(_, _)
Split(s, sep) ==
    IF \A i \in 1..Len(s) : s[i] # sep
    THEN <<s>>
    ELSE LET k == CHOOSE i \in 1..Len(s) :
                      s[i] = sep /\ \A j \in 1..(i - 1) : s[j] # sep
         IN  <<SubSeq(s, 1, k - 1)>> \o Split(SubSeq(s, k + 1, Len(s)), sep)

\* strings.Join(parts, sep)
RECURSIVE Join(_, _)
Join(parts, sep) ==
    IF parts = <<>> THEN <<>>
    ELSE IF Len(parts) = 1 THEN parts[1]
    ELSE parts[1] \o <<sep>> \o Join(Tail(parts), sep)

\* the loop of parsePattern without its break at a part that begins with '*'
RECURSIVE parseLoopNoBreak(_, _)
parseLoopNoBreak(s, parts) ==
    IF s = <<>> THEN parts
    ELSE IF Head(s) = <<>> THEN parseLoopNoBreak(Tail(s), parts)
    ELSE parseLoopNoBreak(Tail(s), Append(parts, Head(s)))

\* the loop of parsePattern over the split string: empty parts are dropped
\* and nothing is read after the first part that begins with '*'
RECURSIVE parseLoop(_, _)
parseLoop(s, parts) ==
    IF s = <<>> THEN parts
    ELSE IF Head(s) = <<>> THEN parseLoop(Tail(s), parts)
    ELSE IF Head(s)[1] = "*" THEN Append(parts, Head(s))
    ELSE parseLoop(Tail(s), Append(parts, Head(s)))

\* parsePattern parses path into string slice.
parsePattern(pattern) == parseLoop(Split(pattern, "/"), <<>>)

-----------------------------------------------------------------------------
(* container.RadixNode *)

\* a *RadixNode that may be nil: <<>> is nil, <<n>> points to n
NilNode == <<>>

NewRootNode ==
    [pattern |-> <<>>, path |-> <<"/">>, isParam |-> FALSE, isAny |-> FALSE,
     children |-> <<>>, hasParamChild |-> FALSE, hasAnyChild |-> FALSE]

\* matchChildren with the test for a param child left out
matchChildrenNoParam(self, part) ==
    LET qualifies(child) ==
            \/ child.pattern = part
            \/ child.isAny
            \/ part[1] = "*"
    IN  SelectSeq(self.children, qualifies)

\* the children findChild may descend into, in child-list order
matchChildren(self, part) ==
    LET qualifies(child) ==
            \/ child.pattern = part
            \/ child.isParam
            \/ child.isAny
            \/ part[1] = "*"
    IN  SelectSeq(self.children, qualifies)

\* findChild that goes on to the next qualifying child when the subtree of
\* one has no match
RECURSIVE findChildBacktrack(_, _, _)
findChildBacktrack(self, parts, height) ==
    IF Len(parts) = height \/ HasPrefix(self.pattern, <<"*">>)
    THEN <<self>>
    ELSE LET children == matchChildren(self, parts[height + 1])
             found == {i \in 1..Len(children) :
                          findChildBacktrack(children[i], parts, height + 1) # NilNode}
         IN  IF found # {}
             THEN findChildBacktrack(children[CHOOSE i \in found : \A k \in found : i <= k],
                                     parts, height + 1)
             ELSE NilNode

\* findChild: the walk goes into the first qualifying child and returns
\* what that child returns
RECURSIVE findChild(_, _, _)
findChild(self, parts, height) ==
    IF Len(parts) = height \/ HasPrefix(self.pattern, <<"*">>)
    THEN <<self>>
    ELSE LET children == matchChildren(self, parts[height + 1])
         IN  IF children # <<>>
             THEN findChild(children[1], parts, height + 1)
             ELSE NilNode

\* Find searchs radix node according to parts
Find(self, parts) == findChild(self, parts, 0)

\* matchChild that takes the param child for any ':' part
matchChildAnyParam(self, part) ==
    LET at == {i \in 1..Len(self.children) :
                  \/ self.children[i].pattern = part
                  \/ (part[1] = ":" /\ self.children[i].isParam)}
    IN  IF at = {} THEN 0 ELSE CHOOSE i \in at : \A k \in at : i <= k

\* matchChild that takes the wildcard child for any part
matchChildAnyWildcard(self, part) ==
    LET at == {i \in 1..Len(self.children) :
                  self.children[i].pattern = part \/ self.children[i].isAny}
    IN  IF at = {} THEN 0 ELSE CHOOSE i \in at : \A k \in at : i <= k

\* the index of the first child whose pattern is part, 0 when there is none
matchChild(self, part) ==
    LET hits == {i \in 1..Len(self.children) : self.children[i].pattern = part}
    IN  IF hits = {} THEN 0
        ELSE CHOOSE i \in hits : \A j \in hits : i <= j

\* the new wildcard child is added and the other children are kept
attachChildKeepSiblings(self, child) ==
    IF child.isParam
    THEN [node |-> [self EXCEPT !.children = Append(self.children, child),
                                !.hasParamChild = TRUE],
          at |-> Len(self.children) + 1]
    ELSE IF child.isAny
    THEN [node |-> [self EXCEPT !.children = Append(self.children, child),
                                !.hasAnyChild = TRUE],
          at |-> Len(self.children) + 1]
    ELSE [node |-> [self EXCEPT !.children = <<child>> \o self.children],
          at |-> 1]

\* attachChild with a static child appended like a param child, not put in front
attachChildStaticLast(self, child) ==
    IF child.isParam
    THEN [node |-> [self EXCEPT !.children = Append(self.children, child),
                                !.hasParamChild = TRUE],
          at |-> Len(self.children) + 1]
    ELSE IF child.isAny
    THEN [node |-> [self EXCEPT
                     !.children =
                         IF Len(self.children) # 0
                         THEN IF self.hasAnyChild
                              THEN [self.children EXCEPT ![1] = child]
                              ELSE <<child>>
                         ELSE Append(self.children, child),
                     !.hasAnyChild = TRUE],
          at |-> 1]
    ELSE [node |-> [self EXCEPT !.children = Append(self.children, child)],
          at |-> Len(self.children) + 1]

\* the child list after the new child is put into it, with the new flags and
\* the place of the new child in the list
attachChild(self, child) ==
    IF child.isParam
    THEN [node |-> [self EXCEPT !.children = Append(self.children, child),
                                !.hasParamChild = TRUE],
          at |-> Len(self.children) + 1]
    ELSE IF child.isAny
    THEN [node |-> [self EXCEPT
                     !.children =
                         IF Len(self.children) # 0
                         THEN IF self.hasAnyChild
                              THEN [self.children EXCEPT ![1] = child]
                              ELSE <<child>>
                         ELSE Append(self.children, child),
                     !.hasAnyChild = TRUE],
          at |-> 1]
    ELSE [node |-> [self EXCEPT !.children = <<child>> \o self.children],
          at |-> 1]

\* insertChild changes the nodes in place and may panic: the result is the
\* node as the call left it and whether the call panicked
RECURSIVE insertChild(_, _, _)
insertChild(self, parts, height) ==
    IF Len(parts) = height
    THEN [node |-> self, panicked |-> FALSE]
    ELSE
      LET part == parts[height + 1]
          at   == matchChild(self, part)
      IN
      IF at # 0
      THEN LET r == insertChild(self.children[at], parts, height + 1)
           IN  [node |-> [self EXCEPT !.children[at] = r.node],
                panicked |-> r.panicked]
      ELSE IF part[1] # "*" /\ self.hasAnyChild
      THEN [node |-> self, panicked |-> TRUE]
      ELSE IF part[1] = ":" /\ self.hasParamChild
      THEN [node |-> self, panicked |-> TRUE]
      ELSE
        LET child == [pattern |-> part,
                      path |-> <<"/">> \o Join(SubSeq(parts, 1, height + 1), "/"),
                      isParam |-> part[1] = ":",
                      isAny |-> part[1] = "*",
                      children |-> <<>>,
                      hasParamChild |-> FALSE, hasAnyChild |-> FALSE]
            put == attachChild(self, child)
            r   == insertChild(child, parts, height + 1)
        IN  [node |-> [put.node EXCEPT !.children[put.at] = r.node],
             panicked |-> r.panicked]

\* Insert adds new node to radix tree.
Insert(self, parts) == insertChild(self, parts, 0)

\* Travel returns a slice contains all nodes.
RECURSIVE Travel(_)
Travel(self) ==
    LET RECURSIVE below(_)
        below(i) == IF i > Len(self.children) THEN <<>>
                    ELSE Travel(self.children[i]) \o below(i + 1)
    IN  <<self>> \o below(1)

-----------------------------------------------------------------------------
(* router *)

\* a Go map as a function; the nil map reads like the empty map
EmptyMap == <<>>

MapPut(m, k, v) == [x \in DOMAIN m \cup {k} |-> IF x = k THEN v ELSE m[x]]

\* method + "-" + pattern, the key of router.handlers
fullPathKey(method, pattern) == method \o <<"-">> \o pattern

RECURSIVE matchParamsLoop(_, _, _, _)
matchParamsLoop(registered, url, i, params) ==
    IF i > Len(registered) THEN params
    ELSE LET reg == registered[i]
             p1  == IF reg[1] = ":"
                    THEN MapPut(params, Tail(reg), url[i])
                    ELSE params
             p2  == IF reg[1] = "*" /\ Len(reg) > 1
                    THEN MapPut(p1, Tail(reg),
                                Join(SubSeq(url, i, Len(url)), "/"))
                    ELSE p1
         IN  matchParamsLoop(registered, url, i + 1, p2)

matchParams(registered, url) == matchParamsLoop(registered, url, 1, EmptyMap)

\* routerNode.Find: the path of the node found, "" when there is none
routerNodeFind(root, path) ==
    LET node == Find(root, parsePattern(path))
    IN  IF node # NilNode THEN node[1].path ELSE <<>>

\* what getRoute returns when nothing is found: "", nil
NotFound == [route |-> <<>>, params |-> EmptyMap]

\* getRoute find registered pattern according to the path,
\* it also returns route parameters parsed.
getRoute(method, path) ==
    IF method \in DOMAIN trees
    THEN LET registeredPath == routerNodeFind(trees[method], path)
         IN  IF registeredPath # <<>>
             THEN [route  |-> registeredPath,
                   params |-> matchParams(parsePattern(registeredPath),
                                          parsePattern(path))]
             ELSE NotFound
    ELSE NotFound

\* router.addRoute that stores the chain before it calls Insert
routerAddRouteStoreFirst(method, pattern, chain) ==
    LET root == IF method \in DOMAIN trees THEN trees[method] ELSE NewRootNode
        r    == Insert(root, parsePattern(pattern))
    IN  [trees    |-> MapPut(trees, method, r.node),
         handlers |-> MapPut(handlers, fullPathKey(method, pattern), chain),
         spare    |-> MapPut(spare, fullPathKey(method, pattern), <<>>),
         panicked |-> r.panicked]

\* router.addRoute that puts the middlewares of the root group in front of
\* the handler when it stores the chain
routerAddRouteWithMiddlewares(method, pattern, chain) ==
    LET root == IF method \in DOMAIN trees THEN trees[method] ELSE NewRootNode
        r    == Insert(root, parsePattern(pattern))
    IN  [trees    |-> MapPut(trees, method, r.node),
         handlers |-> IF r.panicked THEN handlers
                      ELSE MapPut(handlers, fullPathKey(method, pattern),
                                  groups[1].middlewares \o chain),
         spare    |-> IF r.panicked THEN spare
                      ELSE MapPut(spare, fullPathKey(method, pattern), <<>>),
         panicked |-> r.panicked]

\* router.addRoute: the trees and the handler table after the call, and
\* whether Insert panicked (the chain is then never stored).  The chain
\* stored is the slice of the variadic arguments: its array is full
routerAddRoute(method, pattern, chain) ==
    LET root == IF method \in DOMAIN trees THEN trees[method] ELSE NewRootNode
        r    == Insert(root, parsePattern(pattern))
    IN  [trees    |-> MapPut(trees, method, r.node),
         handlers |-> IF r.panicked THEN handlers
                      ELSE MapPut(handlers, fullPathKey(method, pattern), chain),
         spare    |-> IF r.panicked THEN spare
                      ELSE MapPut(spare, fullPathKey(method, pattern), <<>>),
         panicked |-> r.panicked]

-----------------------------------------------------------------------------
(* routerGroup and Engine: registration *)

\* HTTPMethodType
HTTP_GET     == 0
HTTP_HEAD    == 1
HTTP_POST    == 2
HTTP_PUT     == 3
HTTP_DELETE  == 4
HTTP_TRACE   == 5
HTTP_OPTIONS == 6
HTTP_CONNECT == 7
HTTP_PATCH   == 8

\* the switch of routerGroup.addRoute: http.MethodGet, ...
methodString(method) ==
    CASE method = HTTP_GET     -> <<"G", "E", "T">>
      [] method = HTTP_HEAD    -> <<"H", "E", "A", "D">>
      [] method = HTTP_POST    -> <<"P", "O", "S", "T">>
      [] method = HTTP_PUT     -> <<"P", "U", "T">>
      [] method = HTTP_DELETE  -> <<"D", "E", "L", "E", "T", "E">>
      [] method = HTTP_TRACE   -> <<"T", "R", "A", "C", "E">>
      [] method = HTTP_OPTIONS -> <<"O", "P", "T", "I", "O", "N", "S">>
      [] method = HTTP_CONNECT -> <<"C", "O", "N", "N", "E", "C", "T">>
      [] method = HTTP_PATCH   -> <<"P", "A", "T", "C", "H">>
      [] OTHER                 -> <<>>

\* a HandlerFunc is a name and the kind of code it runs; NilHandler is nil
NilHandler == [name |-> "nil", kind |-> "nil"]

\* newRouterGroup(prefix, e) with no middleware yet
newRouterGroup(prefix) == [basePath |-> prefix, middlewares |-> <<>>]

\* routerGroup.addRoute without its three asserts
groupAddRouteUnchecked(g, method, pattern, handler) ==
    LET full == g.basePath \o pattern
        cut  == IF Len(full) > 1 /\ full[Len(full)] = "/"
                THEN SubSeq(full, 1, Len(full) - 1)
                ELSE full
    IN  routerAddRoute(methodString(method), cut, <<handler>>)

\* routerGroup.addRoute: the three asserts, the base path put in front, a
\* trailing '/' cut, then router.addRoute
groupAddRoute(g, method, pattern, handler) ==
    IF ~(Len(pattern) > 0) \/ ~(pattern[1] = "/") \/ ~(handler # NilHandler)
    THEN [trees |-> trees, handlers |-> handlers, spare |-> spare,
          panicked |-> TRUE]
    ELSE LET full == g.basePath \o pattern
             cut  == IF Len(full) > 1 /\ full[Len(full)] = "/"
                     THEN SubSeq(full, 1, Len(full) - 1)
                     ELSE full
         IN  routerAddRoute(methodString(method), cut, <<handler>>)

-----------------------------------------------------------------------------
(* Context and the execution of its handler chain *)

\* new(Context): every field zero
ZeroContext ==
    [ResponseWriter |-> "nil", Request |-> "nil", handlers |-> <<>>,
     index |-> 0, session |-> "nil", Path |-> <<>>, Method |-> <<>>,
     RouteParams |-> EmptyMap, StatusCode |-> 0]

\* Context.Init(rw, r)
contextInit(ctx, method, path) ==
    [ctx EXCEPT !.ResponseWriter = "rw", !.Request = "req",
                !.Method = method, !.Path = path]

\* Context.Free that leaves the chain and the index as they are
contextFreeKeepChain(ctx) ==
    [ctx EXCEPT !.ResponseWriter = "nil",
                !.Request = "nil",
                !.session = "nil",
                !.Method = <<>>,
                !.Path = <<>>,
                !.RouteParams = EmptyMap,
                !.StatusCode = 0]

\* Context.Free: what it leaves in the Context it then puts in the pool
contextFree(ctx) ==
    [ctx EXCEPT !.ResponseWriter = "nil",
                !.Request = "nil",
                !.handlers = <<>>,
                !.index = 0,
                !.session = "nil",
                !.Method = <<>>,
                !.Path = <<>>,
                !.RouteParams = EmptyMap,
                !.StatusCode = 0]

\* the sequence without its i-th element
RemoveAt(seq, i) == SubSeq(seq, 1, i - 1) \o SubSeq(seq, i + 1, Len(seq))

\* a ctxPool.Get() that hands an item out and leaves it in the pool
ctxPoolGetKeep(hp, pl) ==
    {[at |-> pl[i], ctx |-> hp[pl[i]], pool |-> pl] : i \in 1..Len(pl)}
      \cup {[at |-> 0, ctx |-> ZeroContext, pool |-> pl]}

\* ctxPool.Get(): what it may return.  sync.Pool hands out any item put in
\* it and not taken out since, and takes it out; or it calls New, also
\* when items are left (it may drop them at any time).  at is the address
\* of the Context, 0 for one that New has just made
ctxPoolGet(hp, pl) ==
    {[at |-> pl[i], ctx |-> hp[pl[i]], pool |-> RemoveAt(pl, i)] :
        i \in 1..Len(pl)}
      \cup {[at |-> 0, ctx |-> ZeroContext, pool |-> pl]}

\* NewContext(rw, r): the Context that ctxPool.Get() returned, after Init;
\* got is one of the outcomes of ctxPoolGet
NewContext(got, method, path) == contextInit(got.ctx, method, path)

HTTP404Handler == [name |-> "HTTP404Handler", kind |-> "h404"]
HTTP500Handler == [name |-> "HTTP500Handler", kind |-> "h500"]

\* the handler a handler of kind "exit" gives to Exit
Fallback == [name |-> "fallback", kind |-> "plain"]

\* the calls a handler makes, by kind:
\*   plain     c.String(200, "Hi")
\*   wrap      c.Next(), as middleware.Logging does
\*   twice     c.Next(); c.Next()
\*   exit      c.Exit(fallback)
\*   exitnil   c.Exit(nil)
\*   panic     panic(...)
\*   recovery  Recovery(): defer recover; c.Next()
\*   h404      HTTP404Handler: c.Fail(404, ...)
\*   h500      HTTP500Handler: c.Fail(500, ...)
\*   nil       a nil HandlerFunc: calling it panics
Script(kind) ==
    CASE kind = "plain"    -> <<"String200">>
      [] kind = "wrap"     -> <<"Next">>
      [] kind = "twice"    -> <<"Next", "Next">>
      [] kind = "exit"     -> <<"Exit">>
      [] kind = "exitnil"  -> <<"ExitNil">>
      [] kind = "panic"    -> <<"panic">>
      [] kind = "recovery" -> <<"Next">>
      [] kind = "h404"     -> <<"Fail404">>
      [] kind = "h500"     -> <<"Fail500">>
      [] OTHER             -> <<"panic">>

\* a call in progress: Context.Next (at "test": about to test the loop
\* condition, at "called": the handler it called is running or has returned)
\* or a handler (pc: the next call of its script)
NextFrame == [op |-> "Next", h |-> NilHandler, pc |-> 0, at |-> "test"]
HandlerFrame(h) == [op |-> "handler", h |-> h, pc |-> 1, at |-> ""]

Ev(ev, who) == [ev |-> ev, who |-> who]

\* the request: its context, its stack, its trace and its status, with the
\* memory its appends may write: the stored chains and their spare slots
Request ==
    [c |-> c, stack |-> stack, trace |-> trace, status |-> status,
     shared |-> shared, handlers |-> handlers, spare |-> spare]

\* Context.Next is entered by caller: c.index++, then the loop
contextNext(st, caller) ==
    [st EXCEPT !.c.index = @ + 1,
               !.stack = Append(@, NextFrame),
               !.trace = Append(@, Ev("next", caller))]

\* who is waiting for the call at depth i of the stack to return
callerOf(st, i) == IF i = 1 THEN "handle" ELSE st.stack[i - 1].h.name

\* Context.Next without its loop: it calls one handler and returns
nextLoopOnce(st) ==
    LET top == Len(st.stack)
        ctx == IF st.stack[top].at = "called"
               THEN [st.c EXCEPT !.index = @ + 1]
               ELSE st.c
    IN  IF st.stack[top].at = "test" /\ ctx.index <= Len(ctx.handlers)
        THEN [st EXCEPT
                !.c = ctx,
                !.stack = Append([@ EXCEPT ![top].at = "called"],
                                 HandlerFrame(ctx.handlers[ctx.index])),
                !.trace = Append(@, Ev("start", ctx.handlers[ctx.index].name))]
        ELSE [st EXCEPT
                !.c = ctx,
                !.stack = SubSeq(@, 1, top - 1),
                !.trace = Append(@, Ev("back", callerOf(st, top))),
                !.status = IF top = 1 THEN "done" ELSE @]

\* the loop of Context.Next: after the handler it called has returned,
\* c.index++; then, while c.index <= len(c.handlers), the handler at
\* c.index-1 is called; otherwise Next returns to its caller
nextLoop(st) ==
    LET top == Len(st.stack)
        ctx == IF st.stack[top].at = "called"
               THEN [st.c EXCEPT !.index = @ + 1]
               ELSE st.c
    IN  IF ctx.index <= Len(ctx.handlers)
        THEN [st EXCEPT
                !.c = ctx,
                !.stack = Append([@ EXCEPT ![top].at = "called"],
                                 HandlerFrame(ctx.handlers[ctx.index])),
                !.trace = Append(@, Ev("start", ctx.handlers[ctx.index].name))]
        ELSE [st EXCEPT
                !.c = ctx,
                !.stack = SubSeq(@, 1, top - 1),
                !.trace = Append(@, Ev("back", callerOf(st, top))),
                !.status = IF top = 1 THEN "done" ELSE @]

\* an append that writes h in the last slot in use instead of the next one
sliceAppendOverLast(st, h) ==
    LET key == st.shared
        n   == Len(st.c.handlers)
    IN  IF key # <<>> /\ n < Len(st.handlers[key]) + Len(st.spare[key])
        THEN LET len == Len(st.handlers[key])
                 arr == [(st.handlers[key] \o st.spare[key]) EXCEPT ![n] = h]
             IN  [st EXCEPT !.c.handlers = Append(@, h),
                            !.handlers[key] = SubSeq(arr, 1, len),
                            !.spare[key] = SubSeq(arr, len + 1, Len(arr))]
        ELSE [st EXCEPT !.c.handlers = Append(@, h), !.shared = <<>>]

\* c.handlers = append(c.handlers, h).  While c.handlers shares the array
\* of a stored chain and that array has a slot left past len(c.handlers),
\* append writes h in that slot, in the array of the stored chain;
\* otherwise it copies c.handlers to an array of its own
sliceAppend(st, h) ==
    LET key == st.shared
        n   == Len(st.c.handlers)
    IN  IF key # <<>> /\ n < Len(st.handlers[key]) + Len(st.spare[key])
        THEN LET len == Len(st.handlers[key])
                 arr == [(st.handlers[key] \o st.spare[key]) EXCEPT ![n + 1] = h]
             IN  [st EXCEPT !.c.handlers = Append(@, h),
                            !.handlers[key] = SubSeq(arr, 1, len),
                            !.spare[key] = SubSeq(arr, len + 1, Len(arr))]
        ELSE [st EXCEPT !.c.handlers = Append(@, h), !.shared = <<>>]

\* Context.Exit(exitHandler), called by caller
contextExit(st, exitHandler, caller) ==
    IF exitHandler # NilHandler
    THEN LET app == sliceAppend(st, exitHandler)
             hs  == app.c.handlers
         IN  [app EXCEPT
                !.stack = Append(@, HandlerFrame(hs[Len(hs)])),
                !.trace = @ \o <<Ev("exit", caller),
                                 Ev("start", hs[Len(hs)].name)>>]
    ELSE [st EXCEPT !.trace = Append(@, Ev("exit", caller))]

\* Context.Fail(code, ...), also String and Data: the status is set and the
\* response written
contextFail(st, code, text) ==
    [st EXCEPT !.c.StatusCode = code, !.trace = Append(@, Ev("write", text))]

\* a panic in the innermost call: the calls above the innermost Recovery
\* are left, its deferred function recovers and answers 500, and Recovery
\* returns; with no Recovery on the stack the panic leaves ServeHTTP
panicUnwind(st) ==
    LET top  == Len(st.stack)
        who  == st.stack[top].h.name
        recs == {i \in 1..(top - 1) :
                    st.stack[i].op = "handler" /\ st.stack[i].h.kind = "recovery"}
    IN  IF recs = {}
        THEN [st EXCEPT !.stack = <<>>,
                        !.trace = Append(@, Ev("panic", who)),
                        !.status = "crashed"]
        ELSE LET r == CHOOSE i \in recs : \A j \in recs : j <= i
                 rec == st.stack[r].h.name
             IN  [st EXCEPT
                    !.stack = SubSeq(@, 1, r - 1),
                    !.c.StatusCode = 500,
                    !.trace = @ \o <<Ev("panic", who), Ev("recover", rec),
                                     Ev("write", "500"), Ev("end", rec)>>]

\* the handler on top of the stack makes its next call, or returns
handlerStep(st) ==
    LET top    == Len(st.stack)
        f      == st.stack[top]
        script == Script(f.h.kind)
        adv    == [st EXCEPT !.stack[top].pc = @ + 1]
    IN  IF f.pc > Len(script)
        THEN [st EXCEPT !.stack = SubSeq(@, 1, top - 1),
                        !.trace = Append(@, Ev("end", f.h.name))]
        ELSE CASE script[f.pc] = "Next"      -> contextNext(adv, f.h.name)
               [] script[f.pc] = "Exit"      -> contextExit(adv, Fallback, f.h.name)
               [] script[f.pc] = "ExitNil"   -> contextExit(adv, NilHandler, f.h.name)
               [] script[f.pc] = "String200" -> contextFail(adv, 200, "200")
               [] script[f.pc] = "Fail404"   -> contextFail(adv, 404, "404")
               [] script[f.pc] = "Fail500"   -> contextFail(adv, 500, "500")
               [] OTHER                      -> panicUnwind(st)

\* router.handle(c) up to its call of c.Next(): the chain of the route
\* found, or the not-found handler, is bound to the context.  On a hit
\* c.handlers is the stored slice itself, array included
routerHandle(st) ==
    LET r == getRoute(st.c.Method, st.c.Path)
        fullPath == fullPathKey(st.c.Method, r.route)
    IN  IF r.route # <<>>
        THEN IF fullPath \in DOMAIN st.handlers
             THEN [st EXCEPT !.c.handlers = st.handlers[fullPath],
                             !.c.RouteParams = r.params,
                             !.shared = fullPath]
             ELSE [st EXCEPT !.c.handlers = <<>>,
                             !.c.RouteParams = r.params,
                             !.shared = <<>>]
        ELSE sliceAppend([st EXCEPT !.shared = <<>>], HTTP404Handler)

\* Engine.ServeHTTP: a context for the request, then router.handle, which
\* binds the chain and calls c.Next()
ServeHTTP(method, path) ==
    /\ ~fatal
    /\ status # "running"
    /\ \E got \in ctxPoolGet(heap, pool) :
          LET r  == getRoute(method, path)
              st == contextNext(
                        routerHandle([c |-> NewContext(got, method, path),
                                      stack |-> <<>>, trace |-> <<>>,
                                      status |-> "running", shared |-> <<>>,
                                      handlers |-> handlers, spare |-> spare]),
                        "handle")
          IN  /\ lookup' = [called |-> TRUE, method |-> method, path |-> path,
                            route |-> r.route, params |-> r.params]
              /\ c' = st.c
              /\ stack' = st.stack
              /\ trace' = st.trace
              /\ status' = st.status
              /\ shared' = st.shared
              /\ handlers' = st.handlers
              /\ spare' = st.spare
              /\ pool' = got.pool
    /\ UNCHANGED <<routerVars, heap, held, otherVars>>

\* the loop of the innermost Context.Next goes on
NextLoop ==
    /\ status = "running"
    /\ stack # <<>>
    /\ stack[Len(stack)].op = "Next"
    /\ LET st == nextLoop(Request)
       IN  /\ c' = st.c
           /\ stack' = st.stack
           /\ trace' = st.trace
           /\ status' = st.status
           /\ shared' = st.shared
           /\ handlers' = st.handlers
           /\ spare' = st.spare
    /\ UNCHANGED <<routerVars, lookup, poolVars, otherVars>>

\* the innermost handler goes on
HandlerStep ==
    /\ status = "running"
    /\ stack # <<>>
    /\ stack[Len(stack)].op = "handler"
    /\ LET st == handlerStep(Request)
       IN  /\ c' = st.c
           /\ stack' = st.stack
           /\ trace' = st.trace
           /\ status' = st.status
           /\ shared' = st.shared
           /\ handlers' = st.handlers
           /\ spare' = st.spare
    /\ UNCHANGED <<routerVars, lookup, poolVars, otherVars>>

-----------------------------------------------------------------------------
(* Beside the router: the server that Run prepares, and package session.  *)
(* What each of them is before anything has been called.                  *)

\* parsePattern has not been called
NoParse == [called |-> FALSE, pattern |-> <<>>, parts |-> <<>>]

\* an Engine that New has made: e.shutdown is nil, prepareServer has made no
\* server and has started no goroutine
NotPrepared ==
    [shutdown |-> "nil", monitor |-> "none", serving |-> "no",
     shutdowns |-> 0, panicked |-> FALSE]

\* DefaultSettings provides default values for session manager.
DefaultSettings ==
    [Name |-> "SID", StoreType |-> "InMemory", MaxLifeTime |-> 86400,
     LapseTime |-> 1800, TokenKey |-> "Token", TokenValue |-> "User-Agent"]

lastAccessTime == "LastAccessTime"

\* newInMemoryStore returns a store object.  cache maps a session id to a
\* list element, quene lists the elements with the oldest in front, and
\* sessions holds, for every element that PushBack has made, its Value
newInMemoryStore(settings) ==
    [cache |-> EmptyMap, quene |-> <<>>, settings |-> settings,
     sessions |-> <<>>]

\* the goroutines that call the store
Goroutines == {1, 2}

\* a goroutine that is in no call of the store
NoCall ==
    [op |-> "none", pc |-> "idle", sid |-> "", new |-> "", maxLifeTime |-> 0,
     element |-> 0, ok |-> FALSE, rounds |-> 0, inDelete |-> FALSE]

\* sync.RWMutex: nobody holds it
Unlocked == [writer |-> 0, readers |-> {}]

\* var Manager *SessionManager
NilManager == <<>>

\* NewManager has not been called
NoManagerCall ==
    [called |-> FALSE, settings |-> DefaultSettings, created |-> FALSE,
     result |-> <<>>]

IdleParse == parsed = NoParse

IdleServer == srv = NotPrepared

IdleStore ==
    /\ store = newInMemoryStore(DefaultSettings)
    /\ now = 0
    /\ mu = Unlocked
    /\ gos = [g \in Goroutines |-> NoCall]

IdleManager ==
    /\ Manager = NilManager
    /\ made = NoManagerCall

IdleOther ==
    /\ IdleParse
    /\ IdleServer
    /\ IdleStore
    /\ IdleManager

-----------------------------------------------------------------------------
(* The router: registration through the engine's first group, and lookups *)

\* the most routes the handler table holds
MaxRoutes == 3

\* the route templates registered
Templates ==
    { <<"/">>,
      <<"/", "a">>, <<"/", "b">>, <<"/", "b", "/">>,
      <<"/", ":", "x">>, <<"/", ":", "y">>,
      <<"/", "*", "w">>, <<"/", "*", "v">>, <<"/", "*">>,
      <<"/", "a", "/", "b">>, <<"/", "a", "/", ":", "x">>,
      <<"/", "a", "/", "*", "w">>,
      <<"/", ":", "x", "/", "c">> }

\* the request paths looked up
Paths ==
    { <<"/">>,
      <<"/", "a">>, <<"/", "b">>, <<"/", "c">>,
      <<"/", "a", "/", "b">>, <<"/", "a", "/", "c">>, <<"/", "b", "/", "c">>,
      <<"/", "a", "/", "b", "/", "c">>, <<"/", "a", "/", "/", "c">>,
      <<"/", "a", "/">>,
      <<"/", "*", "z">>, <<"/", "a", "/", "*", "z", "/", "c">> }

\* the registrations tried: every template under GET, one under POST
Registrations ==
    ({HTTP_GET} \X Templates) \cup ({HTTP_POST} \X {<<"/", "a">>})

\* the lookups tried: every path under GET, some under POST, and one under
\* PUT, a method nothing is registered for
Lookups ==
    ({methodString(HTTP_GET)} \X Paths)
        \cup ({methodString(HTTP_POST)} \X {<<"/", "a">>, <<"/", "b">>})
        \cup ({methodString(HTTP_PUT)} \X {<<"/", "a">>})

RouteHandler == [name |-> "h", kind |-> "plain"]

NoLookup == [called |-> FALSE, method |-> <<>>, path |-> <<>>,
             route |-> <<>>, params |-> EmptyMap]

\* no route has been registered yet
NoReg == [called |-> FALSE, method |-> HTTP_GET, pattern |-> <<>>,
          handler |-> NilHandler]

\* the slots that append may leave free at the end of the array it
\* allocates: the capacity it chooses is not fixed by the language
SpareSlots == {<<>>, <<NilHandler>>}

Init ==
    /\ trees = EmptyMap
    /\ handlers = EmptyMap
    /\ groups = <<newRouterGroup(<<>>)>>
    /\ fatal = FALSE
    /\ applies = 0
    /\ stale = FALSE
    /\ lastReg = NoReg
    /\ spare = EmptyMap
    /\ lookup = NoLookup
    /\ c = ZeroContext
    /\ stack = <<>>
    /\ trace = <<>>
    /\ status = "idle"
    /\ shared = <<>>
    /\ heap = <<>>
    /\ pool = <<>>
    /\ held = <<>>
    /\ IdleOther

\* (*routerGroup).GET, POST, ... on the engine's own group; routes are
\* registered before requests are served
Register(method, pattern) ==
    /\ ~fatal
    /\ ~lookup.called
    /\ Cardinality(DOMAIN handlers) < MaxRoutes
    /\ LET r == groupAddRoute(groups[1], method, pattern, RouteHandler)
       IN  /\ trees' = r.trees
           /\ handlers' = r.handlers
           /\ spare' = r.spare
           /\ fatal' = r.panicked
    /\ lastReg' = [called |-> TRUE, method |-> method, pattern |-> pattern,
               handler |-> RouteHandler]
    /\ lookup' = NoLookup
    /\ UNCHANGED <<groups, applies, stale, requestVars, poolVars, otherVars>>

\* router.getRoute(method, path)
GetRoute(method, path) ==
    /\ ~fatal
    /\ LET r == getRoute(method, path)
       IN  lookup' = [called |-> TRUE, method |-> method, path |-> path,
                      route |-> r.route, params |-> r.params]
    /\ UNCHANGED <<routerVars, tableVars, requestVars, poolVars, otherVars>>

Next ==
    \/ \E r \in Registrations : Register(r[1], r[2])
    \/ \E l \in Lookups : GetRoute(l[1], l[2])

Spec == Init /\ [][Next]_vars

-----------------------------------------------------------------------------
(* The handler chain: one route with a chain of handlers of every kind,    *)
(* and the requests served with it                                         *)

\* the longest chain stored for the route
MaxChain == 3

ChainKinds == {"plain", "wrap", "twice", "exit", "exitnil", "panic", "recovery"}

HandlerNames == <<"h1", "h2", "h3", "h4", "h5">>

\* the chains of n handlers, named h1, h2, ... by their place
ChainsOfLen(n) ==
    {[i \in 1..n |-> [name |-> HandlerNames[i], kind |-> ks[i]]] :
        ks \in [1..n -> ChainKinds]}

Chains == UNION {ChainsOfLen(n) : n \in 1..MaxChain}

ChainMethod == methodString(HTTP_GET)

\* the route of the chain, and the paths requested: the route, its parent
\* and a path no node stands for
ChainRoute == <<"/", "a", "/", "b">>
ChainPaths == {<<"/", "a", "/", "b">>, <<"/", "a">>, <<"/", "z">>}

\* GET "/a/b" is registered, its chain is the first group's middlewares and
\* then the route's handler, as ApplyMiddleware leaves it, in an array that
\* append made: full, or with a slot to spare
InitChain ==
    \E chain \in Chains :
        /\ trees = MapPut(EmptyMap, ChainMethod,
                          Insert(NewRootNode, parsePattern(ChainRoute)).node)
        /\ handlers = MapPut(EmptyMap, fullPathKey(ChainMethod, ChainRoute), chain)
        /\ groups = <<[basePath |-> <<>>,
                       middlewares |-> SubSeq(chain, 1, Len(chain) - 1)]>>
        /\ fatal = FALSE
        /\ applies = 1
        /\ stale = FALSE
        /\ lastReg = NoReg
        /\ \E free \in SpareSlots :
              spare = MapPut(EmptyMap, fullPathKey(ChainMethod, ChainRoute), free)
        /\ lookup = NoLookup
        /\ c = ZeroContext
        /\ stack = <<>>
        /\ trace = <<>>
        /\ status = "idle"
        /\ shared = <<>>
        /\ heap = <<>>
        /\ pool = <<>>
        /\ held = <<>>
        /\ IdleOther

NextChain ==
    \/ \E p \in ChainPaths : ServeHTTP(ChainMethod, p)
    \/ NextLoop
    \/ HandlerStep

SpecChain == InitChain /\ [][NextChain]_vars

-----------------------------------------------------------------------------
(* Engine: groups, middlewares, ApplyMiddleware *)

\* cleanPrefix returns clean prefix.
cleanPrefix(prefix) ==
    LET lead == IF prefix[1] # "/" THEN <<"/">> \o prefix ELSE prefix
    IN  IF lead[Len(lead)] = "/" THEN SubSeq(lead, 1, Len(lead) - 1) ELSE lead

\* Engine.isDeplicate(prefix)
isDeplicate(prefix) == \E i \in 1..Len(groups) : prefix = groups[i].basePath

\* Recovery()
RecoveryHandler == [name |-> "Recovery", kind |-> "recovery"]

\* router.allRoutes: each key of the handler table, split at "-": the
\* method is the first part and the pattern the last one
allRoutes ==
    {[Method  |-> Split(k, "-")[1],
      Pattern |-> Split(k, "-")[Len(Split(k, "-"))]] : k \in DOMAIN handlers}

\* the chain Engine.applyMiddleware builds for a path: the middlewares of
\* every group whose base path is a prefix of it, in the order of e.groups
RECURSIVE middlewaresFrom(_, _)
middlewaresFrom(i, path) ==
    IF i > Len(groups) THEN <<>>
    ELSE (IF HasPrefix(path, groups[i].basePath)
          THEN groups[i].middlewares ELSE <<>>) \o middlewaresFrom(i + 1, path)

\* applyMiddleware with the middlewares of every group, whatever its base path
applyMiddlewareEveryGroup(table, method, path) ==
    LET RECURSIVE every(_)
        every(i) == IF i > Len(groups) THEN <<>>
                    ELSE groups[i].middlewares \o every(i + 1)
        fullPath == fullPathKey(method, path)
    IN  IF fullPath \in DOMAIN table
        THEN [table EXCEPT ![fullPath] = every(1) \o @]
        ELSE table

\* Engine.applyMiddleware(method, path) with router.applyMiddlewares: the
\* chain is put in front of the handlers stored under method + "-" + path,
\* when there are any
applyMiddleware(table, method, path) ==
    LET fullPath == fullPathKey(method, path)
    IN  IF fullPath \in DOMAIN table
        THEN [table EXCEPT ![fullPath] = middlewaresFrom(1, path) \o @]
        ELSE table

\* the keys whose stored chain router.applyMiddlewares replaces: append
\* gives each of them a new array
appliedKeys ==
    {fullPathKey(r.Method, r.Pattern) : r \in allRoutes} \cap DOMAIN handlers

\* the loop of Engine.ApplyMiddleware over the routes; the order of a map's
\* keys is not fixed, and the table that results does not depend on it
RECURSIVE applyAll(_, _)
applyAll(table, routes) ==
    IF routes = {} THEN table
    ELSE LET route == CHOOSE r \in routes : TRUE
         IN  applyAll(applyMiddleware(table, route.Method, route.Pattern),
                      routes \ {route})

-----------------------------------------------------------------------------
(* The engine: groups, routes and middlewares are set up, ApplyMiddleware  *)
(* runs, requests are served                                               *)

\* the most calls that set the engine up: Group, Use, GET, ApplyMiddleware
MaxSetup == 5

\* the prefixes given to Engine.Group
GroupPrefixes == {<<"/", "a">>, <<"a", "/">>}

\* the routes given to the groups' GET: a pattern and the handler for it;
\* the last three are an empty pattern, a pattern without '/' and a nil handler
EngineRoutes ==
    {[pattern |-> <<"/", "p">>, handler |-> [name |-> "h", kind |-> "plain"]],
     [pattern |-> <<"/", "b", "/", "p">>, handler |-> [name |-> "h", kind |-> "panic"]],
     [pattern |-> <<"/", "b", "-", "/", "a", "/", "p">>,
      handler |-> [name |-> "h", kind |-> "plain"]],
     [pattern |-> <<>>, handler |-> [name |-> "h", kind |-> "plain"]],
     [pattern |-> <<"p">>, handler |-> [name |-> "h", kind |-> "plain"]],
     [pattern |-> <<"/", "p">>, handler |-> NilHandler]}

\* the paths requested
EnginePaths == {<<"/", "a", "/", "p">>, <<"/", "b", "/", "p">>}

MiddlewareNames == <<"M1", "M2", "M3", "M4">>

\* the middleware given to Use for the i-th group: it calls c.Next()
MiddlewareOf(i) == [name |-> MiddlewareNames[i], kind |-> "wrap"]

\* New(), or Default(), which is New() and Use(Recovery())
InitEngine ==
    /\ trees = EmptyMap
    /\ handlers = EmptyMap
    /\ \E mws \in {<<>>, <<RecoveryHandler>>} :
          groups = <<[newRouterGroup(<<>>) EXCEPT !.middlewares = mws]>>
    /\ fatal = FALSE
    /\ applies = 0
    /\ stale = FALSE
    /\ lastReg = NoReg
    /\ spare = EmptyMap
    /\ lookup = NoLookup
    /\ c = ZeroContext
    /\ stack = <<>>
    /\ trace = <<>>
    /\ status = "idle"
    /\ shared = <<>>
    /\ heap = <<>>
    /\ pool = <<>>
    /\ held = <<>>
    /\ IdleOther

\* the calls made so far to set the engine up: a group, a middleware and a
\* route for each call of Group, Use and GET, and the runs of ApplyMiddleware
RECURSIVE middlewareCount(_)
middlewareCount(i) ==
    IF i > Len(groups) THEN 0
    ELSE Len(groups[i].middlewares) + middlewareCount(i + 1)

SetupCalls ==
    (Len(groups) - 1) + middlewareCount(1) + Cardinality(DOMAIN handlers) + applies

\* the engine is being set up: nothing has failed, no request was served
SettingUp == ~fatal /\ status = "idle" /\ SetupCalls < MaxSetup

\* Engine.Group(prefix)
EngineGroup(prefix) ==
    /\ SettingUp
    /\ IF isDeplicate(cleanPrefix(prefix))
       THEN fatal' = TRUE /\ UNCHANGED <<groups, stale>>
       ELSE /\ groups' = Append(groups, newRouterGroup(cleanPrefix(prefix)))
            /\ stale' = TRUE
            /\ UNCHANGED fatal
    /\ UNCHANGED <<trees, tableVars, applies, lastReg, lookup, requestVars, poolVars,
                 otherVars>>

\* routerGroup.Use(middleware) on the i-th group
GroupUse(i) ==
    /\ SettingUp
    /\ groups' = [groups EXCEPT ![i].middlewares = Append(@, MiddlewareOf(i))]
    /\ stale' = TRUE
    /\ UNCHANGED <<trees, tableVars, fatal, applies, lastReg, lookup, requestVars,
                   poolVars, otherVars>>

\* routerGroup.GET(pattern, handler) on the i-th group
GroupGET(i, pattern, handler) ==
    /\ SettingUp
    /\ LET r == groupAddRoute(groups[i], HTTP_GET, pattern, handler)
       IN  /\ trees' = r.trees
           /\ handlers' = r.handlers
           /\ spare' = r.spare
           /\ fatal' = r.panicked
    /\ lastReg' = [called |-> TRUE, method |-> HTTP_GET, pattern |-> pattern,
               handler |-> handler]
    /\ stale' = TRUE
    /\ UNCHANGED <<groups, applies, lookup, requestVars, poolVars, otherVars>>

\* Engine.ApplyMiddleware()
ApplyMiddleware ==
    /\ SettingUp
    /\ handlers' = applyAll(handlers, allRoutes)
    /\ \E free \in [appliedKeys -> SpareSlots] :
          spare' = [k \in DOMAIN spare |->
                       IF k \in appliedKeys THEN free[k] ELSE spare[k]]
    /\ applies' = applies + 1
    /\ stale' = FALSE
    /\ UNCHANGED <<trees, groups, fatal, lastReg, lookup, requestVars, poolVars,
                 otherVars>>

NextEngine ==
    \/ \E prefix \in GroupPrefixes : EngineGroup(prefix)
    \/ \E i \in 1..Len(groups) : GroupUse(i)
    \/ \E i \in 1..Len(groups), r \in EngineRoutes :
          GroupGET(i, r.pattern, r.handler)
    \/ ApplyMiddleware
    \/ \E p \in EnginePaths : ServeHTTP(methodString(HTTP_GET), p)
    \/ NextLoop
    \/ HandlerStep

SpecEngine == InitEngine /\ [][NextEngine]_vars

-----------------------------------------------------------------------------
(* The engine set up with a group /a and routes beside it: /ap, registered *)
(* through the engine's own group, begins with the base path of the group  *)
(* but is not under it                                                      *)

PrefixRoutes ==
    {[pattern |-> <<"/", "p">>, handler |-> [name |-> "h", kind |-> "plain"]],
     [pattern |-> <<"/", "a", "p">>, handler |-> [name |-> "h", kind |-> "plain"]]}

NextPrefix ==
    \/ EngineGroup(<<"/", "a">>)
    \/ \E i \in 1..Len(groups) : GroupUse(i)
    \/ \E i \in 1..Len(groups), r \in PrefixRoutes :
          GroupGET(i, r.pattern, r.handler)
    \/ ApplyMiddleware

SpecPrefix == InitEngine /\ [][NextPrefix]_vars

-----------------------------------------------------------------------------
(* The context pool: requests that take their Context with NewContext and  *)
(* give it back with Free when they are over, in any interleaving          *)

\* the requests in flight at the same time
MaxRequests == 3

PoolRequests == 1..MaxRequests

\* the paths of these requests
PoolPaths == {<<"/", "a">>, <<"/", "b">>}

\* a request that has not called NewContext yet
NotStarted == [ctx |-> 0, phase |-> "none"]

\* what serving a request leaves in its Context: the chain that
\* router.handle bound, the index past it, the route parameters, and the
\* session and the status code when the handlers set them
ServedContexts ==
    {[handlers |-> <<HTTP404Handler>>, index |-> 2, RouteParams |-> EmptyMap,
      session |-> "nil", StatusCode |-> 404],
     [handlers |-> <<RouteHandler>>, index |-> 2,
      RouteParams |-> MapPut(EmptyMap, <<"x">>, <<"a">>),
      session |-> "session", StatusCode |-> 200],
     [handlers |-> <<RouteHandler, Fallback>>, index |-> 3,
      RouteParams |-> EmptyMap, session |-> "nil", StatusCode |-> 200]}

InitPool ==
    /\ trees = EmptyMap
    /\ handlers = EmptyMap
    /\ groups = <<newRouterGroup(<<>>)>>
    /\ fatal = FALSE
    /\ applies = 0
    /\ stale = FALSE
    /\ lastReg = NoReg
    /\ spare = EmptyMap
    /\ lookup = NoLookup
    /\ c = ZeroContext
    /\ stack = <<>>
    /\ trace = <<>>
    /\ status = "idle"
    /\ shared = <<>>
    /\ heap = <<>>
    /\ pool = <<>>
    /\ held = [r \in PoolRequests |-> NotStarted]
    /\ IdleOther

\* NewContext(rw, r) by request r: ctxPool.Get(), then Init
PoolNewContext(r, path) ==
    /\ held[r].phase = "none"
    /\ \E got \in ctxPoolGet(heap, pool) :
          LET at  == IF got.at = 0 THEN Len(heap) + 1 ELSE got.at
              ctx == NewContext(got, methodString(HTTP_GET), path)
          IN  /\ heap' = IF got.at = 0 THEN Append(heap, ctx)
                         ELSE [heap EXCEPT ![at] = ctx]
              /\ pool' = got.pool
              /\ held' = [held EXCEPT ![r] = [ctx |-> at, phase |-> "acquired"]]
    /\ UNCHANGED <<routerVars, tableVars, lookup, requestVars, otherVars>>

\* request r is served: router.handle binds a chain and the parameters,
\* Next runs the chain
PoolServe(r) ==
    /\ held[r].phase = "acquired"
    /\ \E u \in ServedContexts :
          heap' = [heap EXCEPT ![held[r].ctx] =
                      [@ EXCEPT !.handlers = u.handlers, !.index = u.index,
                                !.RouteParams = u.RouteParams,
                                !.session = u.session,
                                !.StatusCode = u.StatusCode]]
    /\ held' = [held EXCEPT ![r].phase = "served"]
    /\ UNCHANGED <<routerVars, tableVars, lookup, requestVars, pool,
                 otherVars>>

\* c.Free() by request r, once it has been served: the fields are reset,
\* then ctxPool.Put(c)
PoolFree(r) ==
    /\ held[r].phase = "served"
    /\ heap' = [heap EXCEPT ![held[r].ctx] = contextFree(@)]
    /\ pool' = Append(pool, held[r].ctx)
    /\ held' = [held EXCEPT ![r].phase = "released"]
    /\ UNCHANGED <<routerVars, tableVars, lookup, requestVars, otherVars>>

NextPool ==
    \/ \E r \in PoolRequests, p \in PoolPaths : PoolNewContext(r, p)
    \/ \E r \in PoolRequests : PoolServe(r)
    \/ \E r \in PoolRequests : PoolFree(r)

SpecPool == InitPool /\ [][NextPool]_vars

-----------------------------------------------------------------------------
(* parsePattern on its own: every string of a small alphabet is parsed     *)

\* the longest string handed to parsePattern
MaxPatternLen == 5

\* the characters of the strings: the separator, the two markers, a letter
PatternChars == {"/", "*", ":", "a"}

RECURSIVE StringsOfLen(_)
StringsOfLen(n) ==
    IF n = 0 THEN {<<>>}
    ELSE {Append(s, ch) : s \in StringsOfLen(n - 1), ch \in PatternChars}

ParseInputs == UNION {StringsOfLen(n) : n \in 0..MaxPatternLen}

IdleRouter ==
    /\ trees = EmptyMap
    /\ handlers = EmptyMap
    /\ groups = <<newRouterGroup(<<>>)>>
    /\ fatal = FALSE
    /\ applies = 0
    /\ stale = FALSE
    /\ lastReg = NoReg
    /\ spare = EmptyMap
    /\ lookup = NoLookup
    /\ c = ZeroContext
    /\ stack = <<>>
    /\ trace = <<>>
    /\ status = "idle"
    /\ shared = <<>>
    /\ heap = <<>>
    /\ pool = <<>>
    /\ held = <<>>

InitParse ==
    /\ IdleRouter
    /\ \E p \in ParseInputs :
          parsed = [called |-> FALSE, pattern |-> p, parts |-> <<>>]
    /\ IdleServer
    /\ IdleStore
    /\ IdleManager

\* parsePattern(pattern)
ParsePattern ==
    /\ ~parsed.called
    /\ parsed' = [parsed EXCEPT !.called = TRUE,
                                !.parts = parsePattern(parsed.pattern)]
    /\ UNCHANGED <<routerVars, tableVars, lookup, requestVars, poolVars, srv,
                   storeVars, managerVars>>

NextParse == ParsePattern

SpecParse == InitParse /\ [][NextParse]_vars

-----------------------------------------------------------------------------
(* The engine run and shut down: Run prepares the server, which applies    *)
(* the middlewares and starts the goroutine that watches e.shutdown        *)

\* how many calls of srv.Shutdown are followed
MaxShutdownCalls == 3

\* Engine.Run(addr): prepareServer applies the middlewares, makes the
\* channel and starts the goroutine; ListenAndServe then serves until the
\* server is shut down.  The engine is run once.
Run ==
    /\ ~fatal /\ status = "idle"
    /\ srv.monitor = "none"
    /\ handlers' = applyAll(handlers, allRoutes)
    /\ \E free \in [appliedKeys -> SpareSlots] :
          spare' = [k \in DOMAIN spare |->
                       IF k \in appliedKeys THEN free[k] ELSE spare[k]]
    /\ applies' = applies + 1
    /\ stale' = FALSE
    /\ srv' = [srv EXCEPT !.shutdown = "open", !.monitor = "receive",
                          !.serving = "listening"]
    /\ UNCHANGED <<trees, groups, fatal, lastReg, lookup, requestVars, poolVars,
                   parsed, storeVars, managerVars>>

\* Engine.Shutdown(): logs an error when the engine is not running, else
\* closes e.shutdown; closing a channel that is closed already panics
EngineShutdown ==
    /\ ~srv.panicked
    /\ srv' = IF srv.shutdown = "nil" THEN srv
              ELSE IF srv.shutdown = "open"
                   THEN [srv EXCEPT !.shutdown = "closed"]
                   ELSE [srv EXCEPT !.panicked = TRUE]
    /\ UNCHANGED <<routerVars, tableVars, lookup, requestVars, poolVars,
                   parsed, storeVars, managerVars>>

\* the goroutine at  _, ok := <-e.shutdown : nothing is ever sent, so the
\* receive blocks while the channel is open and yields ok = false at once,
\* every time, when it is closed
MonitorReceive ==
    /\ ~srv.panicked
    /\ srv.monitor = "receive"
    /\ srv.shutdown = "closed"
    /\ srv' = [srv EXCEPT !.monitor = "shutdown"]
    /\ UNCHANGED <<routerVars, tableVars, lookup, requestVars, poolVars,
                   parsed, storeVars, managerVars>>

\* the goroutine at srv.Shutdown(context.Background()); after the two log
\* calls the for loop takes it back to the receive
MonitorShutdown ==
    /\ ~srv.panicked
    /\ srv.monitor = "shutdown"
    /\ srv.shutdowns < MaxShutdownCalls
    /\ srv' = [srv EXCEPT !.shutdowns = @ + 1, !.monitor = "receive"]
    /\ UNCHANGED <<routerVars, tableVars, lookup, requestVars, poolVars,
                   parsed, storeVars, managerVars>>

\* ListenAndServe returns http.ErrServerClosed once srv.Shutdown has been
\* called, and Run returns
RunReturns ==
    /\ ~srv.panicked
    /\ srv.serving = "listening"
    /\ srv.shutdowns >= 1
    /\ srv' = [srv EXCEPT !.serving = "closed"]
    /\ UNCHANGED <<routerVars, tableVars, lookup, requestVars, poolVars,
                   parsed, storeVars, managerVars>>

NextServer ==
    \/ EngineGroup(<<"/", "a">>)
    \/ \E i \in 1..Len(groups) : GroupUse(i)
    \/ \E i \in 1..Len(groups), r \in PrefixRoutes :
          GroupGET(i, r.pattern, r.handler)
    \/ Run
    \/ EngineShutdown
    \/ MonitorReceive
    \/ MonitorShutdown
    \/ RunReturns

SpecServer == InitEngine /\ [][NextServer]_vars

-----------------------------------------------------------------------------
(* package session: the in-memory store.  Every call is followed statement *)
(* by statement, so that calls of several goroutines interleave where the  *)
(* lock lets them.                                                          *)

\* how many sessions are ever inserted
MaxSessions == 2

\* how far the clock is followed, in seconds
MaxTime == 2

\* how many rounds of one GC call are followed
MaxRounds == 2

SessionIDs == {"a", "b"}

LifeTimes == {1, 2}

\* delete(m, k)
MapDelete(m, k) == [x \in DOMAIN m \ {k} |-> m[x]]

\* session.Get: nil, <<>> here, when the key is not set
sessionGet(s, key) == IF key \in DOMAIN s THEN <<s[key]>> ELSE <<>>

\* session.Set
sessionSet(s, key, value) == MapPut(s, key, value)

\* list.Remove(e): e leaves the list when it is in it
listRemove(l, e) == SelectSeq(l, LAMBDA x : x # e)

\* the statements of Insert between Lock and Unlock, with the session that
\* the statements before Lock have built
storeInsert(st, sid, token, t) ==
    LET newSession ==
            sessionSet(sessionSet(sessionSet(EmptyMap, st.settings.Name, sid),
                                  st.settings.TokenKey, token),
                       lastAccessTime, t)
        element == Len(st.sessions) + 1
    IN  [st EXCEPT !.sessions = Append(@, newSession),
                   !.quene = Append(@, element),
                   !.cache = MapPut(@, sid, element)]

\* the statements of UpdateSID between Lock and Unlock
storeUpdateSID(st, old, new) ==
    IF old \notin DOMAIN st.cache THEN st
    ELSE LET element == st.cache[old]
         IN  [st EXCEPT !.sessions[element] = sessionSet(@, st.settings.Name, new),
                        !.cache = MapDelete(MapPut(@, new, element), old)]

\* the statements of Delete between Lock and Unlock
storeDelete(st, sid) ==
    IF sid \notin DOMAIN st.cache THEN st
    ELSE [st EXCEPT !.cache = MapDelete(@, sid),
                    !.quene = listRemove(@, st.cache[sid])]

\* what the statement a goroutine is at reads and writes of the store
Accesses(f) ==
    CASE f.pc = "lookup" -> {[on |-> <<"cache">>, write |-> FALSE]}
      [] f.pc = "touch" -> {[on |-> <<"session", f.element>>, write |-> TRUE]}
      [] f.pc = "push" -> {[on |-> <<"quene">>, write |-> TRUE],
                           [on |-> <<"cache">>, write |-> TRUE]}
      [] f.pc = "rename" ->
            {[on |-> <<"cache">>, write |-> TRUE]}
                \cup (IF f.sid \in DOMAIN store.cache
                      THEN {[on |-> <<"session", store.cache[f.sid]>>,
                             write |-> TRUE]}
                      ELSE {})
      [] f.pc = "remove" -> {[on |-> <<"quene">>, write |-> TRUE],
                             [on |-> <<"cache">>, write |-> TRUE]}
      [] f.pc = "front" -> {[on |-> <<"quene">>, write |-> FALSE]}
      [] f.pc \in {"time", "name"} ->
            {[on |-> <<"session", f.element>>, write |-> FALSE]}
      [] OTHER -> {}

\* the store's calls leave the rest of the program alone
StoreFrame ==
    UNCHANGED <<routerVars, tableVars, lookup, requestVars, poolVars, parsed,
                srv, managerVars>>

\* RWMutex: Lock waits for the writer and the readers, RLock for the writer
CanLock == mu.writer = 0 /\ mu.readers = {}
CanRLock == mu.writer = 0

\* the goroutine returns from its call; a Delete that GC made returns into
\* the loop of GC, which goes round
Return(g) ==
    IF gos[g].inDelete
    THEN [gos EXCEPT ![g].op = "GC", ![g].pc = "front",
                     ![g].inDelete = FALSE, ![g].rounds = @ + 1]
    ELSE [gos EXCEPT ![g] = NoCall]

\* Read(sid) is called
StartRead(g, sid) ==
    /\ gos[g].pc = "idle"
    /\ gos' = [gos EXCEPT ![g].op = "Read", ![g].pc = "RLock", ![g].sid = sid]
    /\ UNCHANGED <<store, now, mu>>
    /\ StoreFrame

\* m.mu.RLock()
ReadRLock(g) ==
    /\ gos[g].pc = "RLock"
    /\ CanRLock
    /\ mu' = [mu EXCEPT !.readers = @ \cup {g}]
    /\ gos' = [gos EXCEPT ![g].pc = "lookup"]
    /\ UNCHANGED <<store, now>>
    /\ StoreFrame

\* element, ok := m.cache[sid]
ReadLookup(g) ==
    /\ gos[g].pc = "lookup"
    /\ gos' = [gos EXCEPT ![g].pc = "RUnlock",
                          ![g].ok = gos[g].sid \in DOMAIN store.cache,
                          ![g].element = IF gos[g].sid \in DOMAIN store.cache
                                         THEN store.cache[gos[g].sid] ELSE 0]
    /\ UNCHANGED <<store, now, mu>>
    /\ StoreFrame

\* m.mu.RUnlock(), and the return when the id was not found
ReadRUnlock(g) ==
    /\ gos[g].pc = "RUnlock"
    /\ mu' = [mu EXCEPT !.readers = @ \ {g}]
    /\ gos' = IF gos[g].ok THEN [gos EXCEPT ![g].pc = "touch"] ELSE Return(g)
    /\ UNCHANGED <<store, now>>
    /\ StoreFrame

\* element.Value.(Session).Set(lastAccessTime, time.Now()), and the return
ReadTouch(g) ==
    /\ gos[g].pc = "touch"
    /\ store' = [store EXCEPT !.sessions[gos[g].element] =
                                  sessionSet(@, lastAccessTime, now)]
    /\ gos' = Return(g)
    /\ UNCHANGED <<now, mu>>
    /\ StoreFrame

\* Insert(sid, token) is called: m.quene is not nil, the session is built
StartInsert(g, sid) ==
    /\ gos[g].pc = "idle"
    /\ Len(store.sessions) < MaxSessions
    /\ gos' = [gos EXCEPT ![g].op = "Insert", ![g].pc = "Lock", ![g].sid = sid]
    /\ UNCHANGED <<store, now, mu>>
    /\ StoreFrame

\* UpdateSID(old, new) is called
StartUpdateSID(g, old, new) ==
    /\ gos[g].pc = "idle"
    /\ gos' = [gos EXCEPT ![g].op = "UpdateSID", ![g].pc = "Lock",
                          ![g].sid = old, ![g].new = new]
    /\ UNCHANGED <<store, now, mu>>
    /\ StoreFrame

\* Delete(sid) is called
StartDelete(g, sid) ==
    /\ gos[g].pc = "idle"
    /\ gos' = [gos EXCEPT ![g].op = "Delete", ![g].pc = "Lock", ![g].sid = sid]
    /\ UNCHANGED <<store, now, mu>>
    /\ StoreFrame

\* m.mu.Lock() of Insert, UpdateSID and Delete
StoreLock(g) ==
    /\ gos[g].pc = "Lock"
    /\ CanLock
    /\ mu' = [mu EXCEPT !.writer = g]
    /\ gos' = [gos EXCEPT ![g].pc =
                  CASE gos[g].op = "Insert" -> "push"
                    [] gos[g].op = "UpdateSID" -> "rename"
                    [] OTHER -> "remove"]
    /\ UNCHANGED <<store, now>>
    /\ StoreFrame

\* element := m.quene.PushBack(newSession); m.cache[sid] = element
InsertPush(g) ==
    /\ gos[g].pc = "push"
    /\ store' = storeInsert(store, gos[g].sid, "t", now)
    /\ gos' = [gos EXCEPT ![g].pc = "Unlock"]
    /\ UNCHANGED <<now, mu>>
    /\ StoreFrame

\* the body of UpdateSID
UpdateSIDRename(g) ==
    /\ gos[g].pc = "rename"
    /\ store' = storeUpdateSID(store, gos[g].sid, gos[g].new)
    /\ gos' = [gos EXCEPT ![g].pc = "Unlock"]
    /\ UNCHANGED <<now, mu>>
    /\ StoreFrame

\* the body of Delete
DeleteRemove(g) ==
    /\ gos[g].pc = "remove"
    /\ store' = storeDelete(store, gos[g].sid)
    /\ gos' = [gos EXCEPT ![g].pc = "Unlock"]
    /\ UNCHANGED <<now, mu>>
    /\ StoreFrame

\* m.mu.Unlock(), and the return.  GC goes round its loop after Delete
\* whatever Delete returned
StoreUnlock(g) ==
    /\ gos[g].pc = "Unlock"
    /\ gos[g].inDelete => gos[g].rounds < MaxRounds
    /\ mu' = [mu EXCEPT !.writer = 0]
    /\ gos' = Return(g)
    /\ UNCHANGED <<store, now>>
    /\ StoreFrame

\* GC(maxLifeTime) is called: m.quene is not nil
StartGC(g, maxLifeTime) ==
    /\ gos[g].pc = "idle"
    /\ gos' = [gos EXCEPT ![g].op = "GC", ![g].pc = "front",
                          ![g].maxLifeTime = maxLifeTime]
    /\ UNCHANGED <<store, now, mu>>
    /\ StoreFrame

\* element := m.quene.Front(), and the break when there is none
GCFront(g) ==
    /\ gos[g].pc = "front"
    /\ gos' = IF store.quene = <<>>
              THEN [gos EXCEPT ![g] = NoCall]
              ELSE [gos EXCEPT ![g].pc = "time", ![g].element = Head(store.quene)]
    /\ UNCHANGED <<store, now, mu>>
    /\ StoreFrame

\* lastAccessTime := element.Value.(Session).Get(lastAccessTime), and the
\* two breaks: no last access time, or a life shorter than maxLifeTime
GCTime(g) ==
    /\ gos[g].pc = "time"
    /\ LET last == sessionGet(store.sessions[gos[g].element], lastAccessTime)
       IN  gos' = IF last = <<>> \/ last[1] + gos[g].maxLifeTime > now
                  THEN [gos EXCEPT ![g] = NoCall]
                  ELSE [gos EXCEPT ![g].pc = "name"]
    /\ UNCHANGED <<store, now, mu>>
    /\ StoreFrame

\* s := element.Value.(Session).Get(m.settings.Name); continue when it is
\* nil, else m.Delete(sid) is called
GCName(g) ==
    /\ gos[g].pc = "name"
    /\ LET s == sessionGet(store.sessions[gos[g].element], store.settings.Name)
       IN  IF s = <<>>
           THEN /\ gos[g].rounds < MaxRounds
                /\ gos' = [gos EXCEPT ![g].pc = "front", ![g].rounds = @ + 1]
           ELSE gos' = [gos EXCEPT ![g].pc = "Lock", ![g].op = "Delete",
                                   ![g].sid = s[1], ![g].inDelete = TRUE]
    /\ UNCHANGED <<store, now, mu>>
    /\ StoreFrame

\* a second passes
Tick ==
    /\ now < MaxTime
    /\ now' = now + 1
    /\ UNCHANGED <<store, mu, gos>>
    /\ StoreFrame

\* two goroutines are at statements that touch the same data, one of them
\* writes, and the lock does not keep them apart: a data race.  Besides
\* the two orders of the statements, the runtime may stop the program
\* (fatal error: concurrent map writes)
Races(g, h) ==
    /\ g # h
    /\ \E x \in Accesses(gos[g]), y \in Accesses(gos[h]) :
          x.on = y.on /\ (x.write \/ y.write)

RaceFault ==
    /\ \E g, h \in Goroutines : Races(g, h)
    /\ gos' = [g \in Goroutines |-> [gos[g] EXCEPT !.pc = "dead"]]
    /\ UNCHANGED <<store, now, mu>>
    /\ StoreFrame

\* one statement of goroutine g
StoreStep(g) ==
    \/ \E sid \in SessionIDs : StartRead(g, sid)
    \/ ReadRLock(g)
    \/ ReadLookup(g)
    \/ ReadRUnlock(g)
    \/ ReadTouch(g)
    \/ \E sid \in SessionIDs : StartInsert(g, sid)
    \/ \E old, new \in SessionIDs : StartUpdateSID(g, old, new)
    \/ \E sid \in SessionIDs : StartDelete(g, sid)
    \/ StoreLock(g)
    \/ InsertPush(g)
    \/ UpdateSIDRename(g)
    \/ DeleteRemove(g)
    \/ StoreUnlock(g)
    \/ \E maxLifeTime \in LifeTimes : StartGC(g, maxLifeTime)
    \/ GCFront(g)
    \/ GCTime(g)
    \/ GCName(g)

\* the calls of one goroutine, one after the other, while time passes
NextStore ==
    \/ StoreStep(1)
    \/ Tick

\* the calls of the goroutines, interleaved
NextRace ==
    \/ \E g \in Goroutines :
          \/ StartRead(g, "a")
          \/ ReadRLock(g)
          \/ ReadLookup(g)
          \/ ReadRUnlock(g)
          \/ ReadTouch(g)
          \/ StartInsert(g, "a")
          \/ StartUpdateSID(g, "a", "b")
          \/ StartDelete(g, "a")
          \/ StoreLock(g)
          \/ InsertPush(g)
          \/ UpdateSIDRename(g)
          \/ DeleteRemove(g)
          \/ StoreUnlock(g)
          \/ StartGC(g, 1)
          \/ GCFront(g)
          \/ GCTime(g)
          \/ GCName(g)
    \/ Tick
    \/ RaceFault

SpecRace == Init /\ [][NextRace]_vars

SpecStore == Init /\ [][NextStore]_vars

-----------------------------------------------------------------------------
(* package session: the session manager *)

\* the settings handed to NewManager: each one unset or set by the caller
ManagerSettings ==
    [Name : {"", "sid"}, StoreType : {"", "InMemory", "Redis"},
     MaxLifeTime : {0, 60}, LapseTime : {0, 30},
     TokenKey : {"", "Key"}, TokenValue : {"", "Agent"}]

\* init registers the constructor of the in-memory store, the only one
storeConstructorMap == {"InMemory"}

\* NewStore creates new store instance according to StoreType, returns nil
\* if no such storeType.
NewStore(storeType, settings) ==
    IF storeType \in storeConstructorMap
    THEN <<newInMemoryStore(settings)>>
    ELSE <<>>

\* the six if statements of NewManager, in their order
fillSettings(settings) ==
    LET s1 == IF settings.Name = ""
              THEN [settings EXCEPT !.Name = DefaultSettings.Name]
              ELSE settings
        s2 == IF s1.StoreType = ""
              THEN [s1 EXCEPT !.StoreType = DefaultSettings.StoreType]
              ELSE s1
        s3 == IF s2.MaxLifeTime = 0
              THEN [s2 EXCEPT !.MaxLifeTime = DefaultSettings.MaxLifeTime]
              ELSE s2
        s4 == IF s3.LapseTime = 0
              THEN [s3 EXCEPT !.LapseTime = DefaultSettings.MaxLifeTime]
              ELSE s3
        s5 == IF s4.TokenKey = ""
              THEN [s4 EXCEPT !.Name = DefaultSettings.TokenKey]
              ELSE s4
        s6 == IF s5.TokenValue = ""
              THEN [s5 EXCEPT !.Name = DefaultSettings.TokenValue]
              ELSE s5
    IN  s6

\* NewManager(settings): the manager that exists already is returned, else
\* one is made with the filled settings and a store, and its GC is started
NewManager(settings) ==
    /\ IF Manager # NilManager
       THEN /\ UNCHANGED Manager
            /\ made' = [called |-> TRUE, settings |-> settings,
                        created |-> FALSE, result |-> Manager]
       ELSE LET filled == fillSettings(settings)
                m == [store |-> NewStore(filled.StoreType, filled),
                      settings |-> filled, isGCStarted |-> TRUE]
            IN  /\ Manager' = <<m>>
                /\ made' = [called |-> TRUE, settings |-> settings,
                            created |-> TRUE, result |-> <<m>>]
    /\ UNCHANGED <<routerVars, tableVars, lookup, requestVars, poolVars,
                   parsed, srv, storeVars>>

NextManager == \E settings \in ManagerSettings : NewManager(settings)

SpecManager == Init /\ [][NextManager]_vars

-----------------------------------------------------------------------------
(* What the claims speak of: templates, concrete paths, structural match *)

\* the non-empty '/'-separated tokens of a template or of a concrete path
Tokens(path) ==
    LET nonEmpty(t) == t # <<>>
    IN  SelectSeq(Split(path, "/"), nonEmpty)

IsParamSeg(seg) == seg[1] = ":"
IsWildSeg(seg)  == seg[1] = "*"
IsStaticSeg(seg) == ~IsParamSeg(seg) /\ ~IsWildSeg(seg)

\* the concrete tokens p match the template segments t: static segments are
\* equal, a ':' segment takes one token, a final '*' segment takes the rest,
\* which is one token or more
StructMatch(t, p) ==
    IF t # <<>> /\ IsWildSeg(t[Len(t)])
    THEN /\ Len(p) >= Len(t)
         /\ \A i \in 1..(Len(t) - 1) : IsParamSeg(t[i]) \/ t[i] = p[i]
    ELSE /\ Len(p) = Len(t)
         /\ \A i \in 1..Len(t) : IsParamSeg(t[i]) \/ t[i] = p[i]

\* the bindings a match of p with t stands for: ':name' to its token, a
\* final '*name' to the remaining tokens joined with '/', nothing for '*'
ExpectedParams(t, p) ==
    LET named == {i \in 1..Len(t) :
                     IsParamSeg(t[i]) \/ (IsWildSeg(t[i]) /\ Len(t[i]) > 1)}
        at(n) == CHOOSE i \in named : Tail(t[i]) = n
    IN  [n \in {Tail(t[i]) : i \in named} |->
            IF IsParamSeg(t[at(n)]) THEN p[at(n)]
            ELSE Join(SubSeq(p, at(n), Len(p)), "/")]

\* the templates stored in the handler table under a method
Registered(method) ==
    {SubSeq(k, Len(method) + 2, Len(k)) :
        k \in {h \in DOMAIN handlers : HasPrefix(h, method \o <<"-">>)}}

\* the node of a method's tree reached from the root by equal segment
\* literals, nil when some segment has no node
RECURSIVE NodeAt(_, _)
NodeAt(node, segs) ==
    IF segs = <<>> THEN <<node>>
    ELSE LET named == {i \in 1..Len(node.children) :
                          node.children[i].pattern = Head(segs)}
         IN  IF named = {} THEN NilNode
             ELSE NodeAt(node.children[CHOOSE i \in named : TRUE], Tail(segs))

\* the template still has its node in the method's tree
InTree(method, template) ==
    /\ method \in DOMAIN trees
    /\ NodeAt(trees[method], Tokens(template)) # NilNode

\* at a ':' position of t the token of p is the literal of a static node
\* registered at the same position
ShadowedByStatic(method, t, p) ==
    \E i \in 1..Len(t) :
        /\ IsParamSeg(t[i])
        /\ i <= Len(p)
        /\ NodeAt(trees[method], Append(SubSeq(t, 1, i - 1), p[i])) # NilNode

NoStarToken(p) == \A i \in 1..Len(p) : ~IsWildSeg(p[i])

-----------------------------------------------------------------------------
(* C1 *)

\* C1 as stated: every registered template is returned, with its bindings,
\* by the lookup of every concrete path that structurally matches it.
C1_RoundTripEveryTemplate ==
    lookup.called =>
        \A T \in Registered(lookup.method) :
            StructMatch(Tokens(T), Tokens(lookup.path)) =>
                /\ lookup.route = T
                /\ lookup.params = ExpectedParams(Tokens(T), Tokens(lookup.path))

\* C1 as amended: a registered template whose node is still in the tree is
\* returned, with its bindings, by the lookup of a concrete path that
\* structurally matches it, has no token beginning with '*', and at no ':'
\* position carries the literal of a static node registered at that position.
C1_RoundTripUnshadowed ==
    lookup.called =>
        \A T \in Registered(lookup.method) :
            ( /\ StructMatch(Tokens(T), Tokens(lookup.path))
              /\ InTree(lookup.method, T)
              /\ NoStarToken(Tokens(lookup.path))
              /\ ~ShadowedByStatic(lookup.method, Tokens(T), Tokens(lookup.path)) )
            => /\ lookup.route = T
               /\ lookup.params = ExpectedParams(Tokens(T), Tokens(lookup.path))

\* C1's case: next to a static sibling, a template with a ':' segment was
\* looked up with a matching path and came back with a binding
C1_Witness ==
    /\ lookup.called
    /\ lookup.route = <<"/", "a", "/", ":", "x">>
    /\ lookup.path = <<"/", "a", "/", "c">>
    /\ fullPathKey(lookup.method, <<"/", "a", "/", "b">>) \in DOMAIN handlers
    /\ lookup.params # EmptyMap

-----------------------------------------------------------------------------
(* C2 *)

AllStatic(t) == \A i \in 1..Len(t) : IsStaticSeg(t[i])

\* S is a template of static segments and a template with a ':' segment in
\* the place of S's last segment is registered under the same method
HasParamSibling(method, S) ==
    /\ Tokens(S) # <<>>
    /\ AllStatic(Tokens(S))
    /\ \E P \in Registered(method) :
          /\ Len(Tokens(P)) = Len(Tokens(S))
          /\ SubSeq(Tokens(P), 1, Len(Tokens(P)) - 1)
                 = SubSeq(Tokens(S), 1, Len(Tokens(S)) - 1)
          /\ IsParamSeg(Tokens(P)[Len(Tokens(P))])

\* C2 as stated: when a static template and a param template under the same
\* parent are both registered, the lookup of the static template's own path
\* returns the static template.
C2_StaticBeforeParam ==
    lookup.called =>
        \A S \in Registered(lookup.method) :
            (HasParamSibling(lookup.method, S)
                /\ Tokens(lookup.path) = Tokens(S))
            => lookup.route = S

\* C2 as amended: the same, as long as no wildcard registered afterwards at
\* their parent or above has discarded the static template's node.
C2_StaticBeforeParamInTree ==
    lookup.called =>
        \A S \in Registered(lookup.method) :
            (HasParamSibling(lookup.method, S)
                /\ InTree(lookup.method, S)
                /\ Tokens(lookup.path) = Tokens(S))
            => lookup.route = S

\* C2's case: /a/b and /a/:x are both registered and /a/b was looked up
C2_Witness ==
    /\ lookup.called
    /\ lookup.path = <<"/", "a", "/", "b">>
    /\ HasParamSibling(lookup.method, <<"/", "a", "/", "b">>)
    /\ <<"/", "a", "/", "b">> \in Registered(lookup.method)
    /\ lookup.route = <<"/", "a", "/", "b">>

-----------------------------------------------------------------------------
(* C3 *)

\* C3: getRoute returns a non-empty template only if that template was
\* registered under the method, so that it has a stored handler chain; a
\* path that ends at an intermediate node, or at the root when "/" was never
\* registered, is not found.
C3_OnlyRegisteredTemplates ==
    (lookup.called /\ lookup.route # <<>>) =>
        fullPathKey(lookup.method, lookup.route) \in DOMAIN handlers

-----------------------------------------------------------------------------
(* The trace of a request *)

\* the chain stored for the route the request was matched with
StoredChain ==
    IF fullPathKey(lookup.method, lookup.route) \in DOMAIN handlers
    THEN handlers[fullPathKey(lookup.method, lookup.route)]
    ELSE <<>>

\* the place in the stored chain of the handler called name, 0 for a
\* handler that is not of the stored chain
PosOf(name) ==
    LET at == {i \in 1..Len(StoredChain) : StoredChain[i].name = name}
    IN  IF at = {} THEN 0 ELSE CHOOSE i \in at : TRUE

KindOf(name) == IF PosOf(name) = 0 THEN "" ELSE StoredChain[PosOf(name)].kind

Starts(name) == {k \in 1..Len(trace) : trace[k] = Ev("start", name)}

\* router.handle has bound the chain and entered c.Next(); no handler has
\* been called yet
JustBound == status = "running" /\ Len(trace) = 1

\* no template registered under the request's method matches its path
NoRouteMatches ==
    \A T \in Registered(c.Method) : ~StructMatch(Tokens(T), Tokens(c.Path))

-----------------------------------------------------------------------------
(* C4 *)

\* C4: router.handle binds a chain that is never empty, and for a request
\* that corresponds to no registered route the chain is [HTTP404Handler],
\* which is then executed.
C4_ChainOrNotFound ==
    /\ JustBound => c.handlers # <<>>
    /\ (JustBound /\ NoRouteMatches) => c.handlers = <<HTTP404Handler>>
    /\ (status = "done" /\ NoRouteMatches) => Starts("HTTP404Handler") # {}

-----------------------------------------------------------------------------
(* C5 *)

\* the calls of Exit(fallback) in the trace
ExitCalls ==
    {k \in 1..Len(trace) : trace[k].ev = "exit" /\ KindOf(trace[k].who) = "exit"}

\* C5: when a handler calls Exit(fallback), the fallback runs at once and
\* once only, and no handler placed after the caller in the chain runs
\* afterwards in that request.
C5_ExitSkipsRemaining ==
    /\ \A k \in ExitCalls :
          /\ k < Len(trace) => trace[k + 1] = Ev("start", Fallback.name)
          /\ \A j \in (k + 1)..Len(trace) :
                ~(trace[j].ev = "start" /\ PosOf(trace[j].who) > PosOf(trace[k].who))
    /\ Cardinality(Starts(Fallback.name)) <= Cardinality(ExitCalls)

-----------------------------------------------------------------------------
(* C6 *)

\* where a handler of the stored chain that calls neither Next nor Exit
\* has returned
PlainReturns ==
    {k \in 1..Len(trace) : trace[k].ev = "end" /\ KindOf(trace[k].who) = "plain"}

-----------------------------------------------------------------------------
(* C7 *)

Recoveries == {k \in 1..Len(trace) : trace[k].ev = "recover"}

\* C7: after a panic has been recovered the chain is abandoned: no handler
\* that had not started before is invoked, and the 500 response is written
\* exactly once.
C7_FaultAbandonsChain ==
    /\ \A k \in Recoveries :
          \A j \in (k + 1)..Len(trace) :
              trace[j].ev = "start" => \E i \in 1..(k - 1) : trace[i] = trace[j]
    /\ (status = "done" /\ Recoveries # {}) =>
          Cardinality({k \in 1..Len(trace) : trace[k] = Ev("write", "500")}) = 1

-----------------------------------------------------------------------------
(* C8 *)

\* C8: a panic raised by a handler during chain execution never leaves
\* ServeHTTP, whether the engine comes from New or from Default and whether
\* the route was registered before or after ApplyMiddleware.
C8_NoPanicLeavesServeHTTP == status # "crashed"

-----------------------------------------------------------------------------
(* C9, C10 *)

\* the template of a key of the handler table: what follows the method and
\* the first "-"
TemplateOf(key) ==
    LET dash == CHOOSE i \in 1..Len(key) :
                    key[i] = "-" /\ \A j \in 1..(i - 1) : key[j] # "-"
    IN  SubSeq(key, dash + 1, Len(key))

\* the handler is in the chain, ahead of the chain's last handler
AheadOfOwnHandler(handler, chain) ==
    \E i \in 1..(Len(chain) - 1) : chain[i] = handler

\* C9: once ApplyMiddleware has run over the present routes and groups,
\* every middleware of every group whose base path is a prefix of a
\* registered template is in that route's stored chain, ahead of the
\* route's own handler.
C9_PrefixGroupsMiddlewaresApplied ==
    (applies >= 1 /\ ~stale /\ ~fatal) =>
        \A key \in DOMAIN handlers : \A g \in 1..Len(groups) :
            HasPrefix(TemplateOf(key), groups[g].basePath) =>
                \A m \in 1..Len(groups[g].middlewares) :
                    AheadOfOwnHandler(groups[g].middlewares[m], handlers[key])

\* C10: a group's middleware is in a route's stored chain only if the
\* route's template starts with the group's base path, and a request
\* matched with a route under another prefix never runs that middleware.
C10_MiddlewareOnlyUnderPrefix ==
    \A g \in 1..Len(groups) : \A m \in 1..Len(groups[g].middlewares) :
        /\ \A key \in DOMAIN handlers :
              (\E i \in 1..Len(handlers[key]) :
                    handlers[key][i] = groups[g].middlewares[m])
                 => HasPrefix(TemplateOf(key), groups[g].basePath)
        /\ Starts(groups[g].middlewares[m].name) # {}
              => HasPrefix(lookup.route, groups[g].basePath)

\* C10's case: ApplyMiddleware ran with a middleware on the group /a and
\* the routes /a/p and /b/p; /a/p has the middleware in its chain and a
\* request for /b/p is over
C10_Witness ==
    /\ applies >= 1
    /\ status \in {"done", "crashed"}
    /\ lookup.route = <<"/", "b", "/", "p">>
    /\ \E g \in 1..Len(groups) :
          /\ groups[g].basePath = <<"/", "a">>
          /\ groups[g].middlewares # <<>>
          /\ fullPathKey(methodString(HTTP_GET), <<"/", "a", "/", "p">>) \in DOMAIN handlers
          /\ AheadOfOwnHandler(groups[g].middlewares[1],
                               handlers[fullPathKey(methodString(HTTP_GET), <<"/", "a", "/", "p">>)])
          /\ Starts(groups[g].middlewares[1].name) = {}

-----------------------------------------------------------------------------
(* C11 *)

\* C11: once the chain of a dispatched request has completed (normally, by
\* Exit, or after a recovered panic) its context has been reset and put
\* back in ctxPool.
C11_ContextReleased ==
    status = "done" => (c = ZeroContext /\ Len(pool) >= 1)

-----------------------------------------------------------------------------
(* C12, C13 *)

\* the request holds a Context: it has called NewContext and not Free
InFlight(r) == held[r].phase \in {"acquired", "served"}

\* C12: Free leaves every field of the Context zero, so every Context in
\* the pool is zero and a Context that NewContext has just returned has no
\* handler chain, index, session, route parameters or status code of an
\* earlier request.
C12_FreeResetsEveryField ==
    /\ \A i \in 1..Len(pool) : heap[pool[i]] = ZeroContext
    /\ \A r \in DOMAIN held :
          held[r].phase = "acquired" =>
              heap[held[r].ctx] =
                  contextInit(ZeroContext, heap[held[r].ctx].Method,
                              heap[held[r].ctx].Path)

\* C12's case: a request has just got from NewContext the Context that
\* another request was served with and freed
C12_Witness ==
    \E r1, r2 \in DOMAIN held :
        /\ held[r1].phase = "released"
        /\ held[r2].phase = "acquired"
        /\ held[r1].ctx = held[r2].ctx

\* C13: two requests in flight never hold the same Context.
C13_ExclusiveOwnership ==
    \A r1, r2 \in DOMAIN held :
        (r1 # r2 /\ InFlight(r1) /\ InFlight(r2)) => held[r1].ctx # held[r2].ctx

\* C13's case: two requests are in flight, one of them with a Context that
\* a third request has freed
C13_Witness ==
    \E r1, r2, r3 \in DOMAIN held :
        /\ r1 # r2
        /\ InFlight(r1)
        /\ InFlight(r2)
        /\ held[r3].phase = "released"
        /\ held[r3].ctx = held[r1].ctx

-----------------------------------------------------------------------------
(* C14 *)

\* the wildcard template /a/*w and what stands under /a
WildAtA == <<"/", "a", "/", "*", "w">>
UnderA(tokens) == Len(tokens) >= 2 /\ tokens[1] = "a"

\* the templates registered under /a before /a/*w was: a static or param
\* template cannot be registered there once the wildcard is
FormerSiblings(method) ==
    {S \in Registered(method) : UnderA(Tokens(S)) /\ S # WildAtA}

\* C14 as stated: once /a/*w has been registered after siblings under /a,
\* every lookup of /a/<anything> returns /a/*w with w bound to the rest of
\* the path, and no former sibling is returned by any lookup.
C14_WildcardAbsorbsForEver ==
    ( /\ lookup.called
      /\ WildAtA \in Registered(lookup.method)
      /\ FormerSiblings(lookup.method) # {} )
    => /\ UnderA(Tokens(lookup.path)) =>
             /\ lookup.route = WildAtA
             /\ lookup.params = ExpectedParams(Tokens(WildAtA), Tokens(lookup.path))
       /\ lookup.route \notin FormerSiblings(lookup.method)

\* C14 as amended: as long as no wildcard registered later at /a or above
\* has replaced /a/*w in its turn, every lookup of /a/<anything> returns
\* /a/*w, with w bound to the rest of the path when no token of the path
\* begins with '*' (C18); and no former sibling is ever returned again.
C14_WildcardAbsorbsSiblings ==
    ( /\ lookup.called
      /\ WildAtA \in Registered(lookup.method)
      /\ FormerSiblings(lookup.method) # {} )
    => /\ (UnderA(Tokens(lookup.path)) /\ InTree(lookup.method, WildAtA)) =>
             /\ lookup.route = WildAtA
             /\ NoStarToken(Tokens(lookup.path)) =>
                   lookup.params =
                       ExpectedParams(Tokens(WildAtA), Tokens(lookup.path))
       /\ lookup.route \notin FormerSiblings(lookup.method)

\* C14's case: /a/b was registered, then /a/*w, and the lookup of /a/b
\* returns /a/*w with w bound to b
C14_Witness ==
    /\ lookup.called
    /\ lookup.path = <<"/", "a", "/", "b">>
    /\ <<"/", "a", "/", "b">> \in FormerSiblings(lookup.method)
    /\ WildAtA \in Registered(lookup.method)
    /\ lookup.route = WildAtA
    /\ lookup.params = MapPut(EmptyMap, <<"w">>, <<"b">>)

-----------------------------------------------------------------------------
(* C15, C16 *)

\* the first segment of the pattern that has no node yet is a ':' segment,
\* and the node it would be added to has a param child already
AddsParamSibling(method, pattern) ==
    /\ method \in DOMAIN trees
    /\ \E k \in 1..Len(parsePattern(pattern)) :
          LET parts == parsePattern(pattern)
              n     == NodeAt(trees[method], SubSeq(parts, 1, k - 1))
          IN  /\ n # NilNode
              /\ IsParamSeg(parts[k])
              /\ \A i \in 1..Len(n[1].children) : n[1].children[i].pattern # parts[k]
              /\ \E i \in 1..Len(n[1].children) : n[1].children[i].isParam

\* the first segment of the pattern that has no node yet is a static or a
\* ':' segment, and the node it would be added to has a wildcard child
AddsUnderWildcard(method, pattern) ==
    /\ method \in DOMAIN trees
    /\ \E k \in 1..Len(parsePattern(pattern)) :
          LET parts == parsePattern(pattern)
              n     == NodeAt(trees[method], SubSeq(parts, 1, k - 1))
          IN  /\ n # NilNode
              /\ ~IsWildSeg(parts[k])
              /\ \A i \in 1..Len(n[1].children) : n[1].children[i].pattern # parts[k]
              /\ \E i \in 1..Len(n[1].children) : n[1].children[i].isAny

\* C15: a registration that would add a ':' segment with a new name under
\* a node that has a param child panics.
C15_SecondParamSiblingIsFatal ==
    [][\A r \in Registrations :
          (Register(r[1], r[2]) /\ AddsParamSibling(methodString(r[1]), r[2]))
              => fatal']_vars

\* C15's case: the registration of a ':' segment next to a param child has
\* panicked (the panic leaves that node as it was)
C15_Witness ==
    /\ fatal
    /\ lastReg.called
    /\ AddsParamSibling(methodString(lastReg.method), lastReg.pattern)

\* C16: a registration that would add a static or ':' child under a node
\* that has a wildcard child panics, whatever was registered before.
C16_ChildUnderWildcardIsFatal ==
    [][\A r \in Registrations :
          (Register(r[1], r[2]) /\ AddsUnderWildcard(methodString(r[1]), r[2]))
              => fatal']_vars

\* C16's case: the registration of a static or ':' segment next to a
\* wildcard child has panicked
C16_Witness ==
    /\ fatal
    /\ lastReg.called
    /\ AddsUnderWildcard(methodString(lastReg.method), lastReg.pattern)

-----------------------------------------------------------------------------
(* C17 *)

\* what routerGroup.addRoute refuses
InvalidRoute(pattern, handler) ==
    \/ pattern = <<>>
    \/ pattern # <<>> /\ pattern[1] # "/"
    \/ handler = NilHandler

\* C17: a GET through a router group with an empty pattern, a pattern that
\* does not begin with '/', or a nil handler panics and leaves every tree
\* and the handler table as they were.
C17_InvalidRegistrationIsFatal ==
    [][\A i \in 1..Len(groups), r \in EngineRoutes :
          (GroupGET(i, r.pattern, r.handler) /\ InvalidRoute(r.pattern, r.handler))
              => (fatal' /\ trees' = trees /\ handlers' = handlers)]_vars

\* C17's case: with a route in the table already, the last GET was given an
\* invalid pattern or handler and has panicked
C17_Witness ==
    /\ fatal
    /\ lastReg.called
    /\ InvalidRoute(lastReg.pattern, lastReg.handler)
    /\ DOMAIN handlers # {}
    /\ Len(groups) >= 2

-----------------------------------------------------------------------------
(* C18 *)

\* C18: after a successful match the parameter map binds each ':name'
\* segment of the matched template to the path token at its position and a
\* trailing '*name' segment to the whole remaining suffix of the path
\* joined with '/'; an unnamed '*' binds nothing and there are no other keys.
C18_ParamsBindWholeSuffix ==
    ( /\ lookup.called
      /\ lookup.route \in Registered(lookup.method)
      /\ StructMatch(Tokens(lookup.route), Tokens(lookup.path)) )
    => lookup.params = ExpectedParams(Tokens(lookup.route), Tokens(lookup.path))

-----------------------------------------------------------------------------
(* C19 *)

\* C19: the steps of a request (getRoute and handle in ServeHTTP, Next,
\* Exit) leave every method tree and every stored handler chain as they
\* were, so a lookup beside them reads the same tree and the same chains.
C19_RequestsLeaveRouteTable ==
    [][trees' = trees /\ handlers' = handlers]_vars

\* C19's case: a request has come to its end after Exit appended its exit
\* handler in the array of the stored chain, past the chain's end
C19_Witness ==
    /\ status = "done"
    /\ \E key \in DOMAIN handlers :
          /\ spare[key] # <<>>
          /\ spare[key][1] # NilHandler
          /\ Len(handlers[key]) >= 2

-----------------------------------------------------------------------------
(* C20 *)

\* C20: middlewares are attached by ApplyMiddleware only.  In a step that
\* is not a run of ApplyMiddleware every chain of the table stays as it
\* was, except the chain of a route registered by the step, which is its
\* own handler alone: so it stays until ApplyMiddleware runs again.
C20_MiddlewareOnlyWhenApplied ==
    [][applies' = applies =>
          \A k \in DOMAIN handlers' :
              \/ k \in DOMAIN handlers /\ handlers'[k] = handlers[k]
              \/ /\ \E i \in 1..Len(groups) :
                       GroupGET(i, lastReg'.pattern, lastReg'.handler)
                 /\ handlers'[k] = <<lastReg'.handler>>]_vars

\* C20's case: on a Default() engine, whose root group has Recovery, after a
\* run of ApplyMiddleware that gave Recovery to /a/p, the route /p registered
\* since has no middleware
C20_Witness ==
    /\ ~fatal
    /\ applies >= 1
    /\ groups[1].middlewares = <<RecoveryHandler>>
    /\ fullPathKey(methodString(HTTP_GET), <<"/", "a", "/", "p">>) \in DOMAIN handlers
    /\ Len(handlers[fullPathKey(methodString(HTTP_GET), <<"/", "a", "/", "p">>)]) = 2
    /\ fullPathKey(methodString(HTTP_GET), <<"/", "p">>) \in DOMAIN handlers
    /\ handlers[fullPathKey(methodString(HTTP_GET), <<"/", "p">>)]
           = <<[name |-> "h", kind |-> "plain"]>>

-----------------------------------------------------------------------------
(* C21 *)

\* some walk from node through qualifying children takes all of parts, or
\* ends at a wildcard node
RECURSIVE SomeWalk(_, _)
SomeWalk(node, parts) ==
    \/ parts = <<>>
    \/ HasPrefix(node.pattern, <<"*">>)
    \/ \E i \in 1..Len(matchChildren(node, Head(parts))) :
          SomeWalk(matchChildren(node, Head(parts))[i], Tail(parts))

\* on the way through the first qualifying children there is a child whose
\* subtree has no walk for the segments that remain
RECURSIVE FirstChoiceFails(_, _)
FirstChoiceFails(node, parts) ==
    /\ parts # <<>>
    /\ ~HasPrefix(node.pattern, <<"*">>)
    /\ matchChildren(node, Head(parts)) # <<>>
    /\ LET first == matchChildren(node, Head(parts))[1]
       IN  \/ ~SomeWalk(first, Tail(parts))
           \/ FirstChoiceFails(first, Tail(parts))

\* C21: Find goes into the first qualifying child only and never comes
\* back: when the subtree of that child has no match for the remaining
\* segments the lookup finds nothing, whatever the other children lead to.
C21_NoBacktracking ==
    ( /\ lookup.called
      /\ lookup.method \in DOMAIN trees
      /\ FirstChoiceFails(trees[lookup.method], parsePattern(lookup.path)) )
    => (lookup.route = <<>> /\ lookup.params = EmptyMap)

\* C21's case: the first qualifying child fails, a sibling leads to a
\* registered template that matches the path, and nothing is found
C21_Witness ==
    /\ lookup.called
    /\ lookup.method \in DOMAIN trees
    /\ FirstChoiceFails(trees[lookup.method], parsePattern(lookup.path))
    /\ SomeWalk(trees[lookup.method], parsePattern(lookup.path))
    /\ \E T \in Registered(lookup.method) :
          /\ InTree(lookup.method, T)
          /\ StructMatch(Tokens(T), Tokens(lookup.path))
    /\ lookup.route = <<>>

-----------------------------------------------------------------------------
(* C22 *)

\* no handler of the chain bound to the context faults or calls Exit
NoFaultNoExit ==
    \A i \in 1..Len(c.handlers) :
        c.handlers[i].kind \in {"plain", "wrap", "twice", "recovery", "h404"}

\* the names of the handlers started so far, in the order they started
StartedNames ==
    LET isStart(e) == e.ev = "start"
        started == SelectSeq(trace, isStart)
    IN  [k \in 1..Len(started) |-> started[k].who]

\* the names of the chain bound to the context
BoundNames == [i \in 1..Len(c.handlers) |-> c.handlers[i].name]

\* C22: in a request without faults and without Exit the handlers started
\* are the handlers of the bound chain, in chain order, none of them twice,
\* and all of them once the request is over, whichever of them call Next()
\* and however often.
C22_EveryHandlerOnceInOrder ==
    (status \in {"running", "done"} /\ NoFaultNoExit) =>
        /\ Len(StartedNames) <= Len(BoundNames)
        /\ StartedNames = SubSeq(BoundNames, 1, Len(StartedNames))
        /\ status = "done" => StartedNames = BoundNames

\* C22's case: the request of a chain of three is over, the first handler
\* called Next() twice and the second once
C22_Witness ==
    /\ status = "done"
    /\ NoFaultNoExit
    /\ Len(c.handlers) = 3
    /\ c.handlers[1].kind = "twice"
    /\ c.handlers[2].kind = "wrap"
    /\ StartedNames = BoundNames

-----------------------------------------------------------------------------
(* C23 *)

\* where a call of Next() made by a handler of the stored chain has returned
NextReturns ==
    {k \in 1..Len(trace) : trace[k].ev = "back" /\ PosOf(trace[k].who) > 0}

\* C23: when the Next() called by a handler returns, every later handler of
\* the chain has been started before and, unless a panic ended it, has
\* returned before; none of them does anything afterwards: the code after
\* Next() runs after all of them.
C23_NextReturnsAfterTheRest ==
    \A k \in NextReturns :
        /\ \A j \in (PosOf(trace[k].who) + 1)..Len(StoredChain) :
              /\ \E s \in 1..(k - 1) : trace[s] = Ev("start", StoredChain[j].name)
              /\ (\A s \in 1..k : trace[s].ev # "panic") =>
                    \E e \in 1..(k - 1) : trace[e] = Ev("end", StoredChain[j].name)
        /\ \A m \in (k + 1)..Len(trace) :
              PosOf(trace[m].who) <= PosOf(trace[k].who)

\* C23's case: in a chain of three the first two handlers wrap the rest
\* with Next(); the Next() of the first has returned after the second and
\* the third had ended, and the first has ended after that
C23_Witness ==
    /\ status = "done"
    /\ Len(StoredChain) = 3
    /\ StoredChain[1].kind = "wrap"
    /\ StoredChain[2].kind = "wrap"
    /\ StoredChain[3].kind = "plain"
    /\ \E k \in NextReturns :
          /\ trace[k].who = StoredChain[1].name
          /\ \E e2, e3 \in 1..(k - 1) :
                /\ trace[e2] = Ev("end", StoredChain[2].name)
                /\ trace[e3] = Ev("end", StoredChain[3].name)
          /\ k < Len(trace)
          /\ trace[k + 1] = Ev("end", StoredChain[1].name)

-----------------------------------------------------------------------------
(* C24 *)

\* C24: whenever a lookup returns a template, every static segment of the
\* template equals the segment of the concrete path at the same position,
\* also when a segment of the path begins with '*'.
C24_ReturnedTemplateMatchesPath ==
    (lookup.called /\ lookup.route # <<>>) =>
        \A i \in 1..Len(Tokens(lookup.route)) :
            IsStaticSeg(Tokens(lookup.route)[i]) =>
                /\ i <= Len(Tokens(lookup.path))
                /\ Tokens(lookup.path)[i] = Tokens(lookup.route)[i]

-----------------------------------------------------------------------------
(* C25 *)

\* every node of every method tree
AllNodes ==
    UNION {LET nodes == Travel(trees[m])
           IN  {nodes[i] : i \in 1..Len(nodes)} : m \in DOMAIN trees}

ParamChildren(n) == {i \in 1..Len(n.children) : IsParamSeg(n.children[i].pattern)}
WildChildren(n)  == {i \in 1..Len(n.children) : IsWildSeg(n.children[i].pattern)}

\* C25: after any sequence of registrations every node has at most one
\* param child and at most one wildcard child, and a node with a wildcard
\* child has no other child.
C25_OneParamOneWildcard ==
    \A n \in AllNodes :
        /\ Cardinality(ParamChildren(n)) <= 1
        /\ Cardinality(WildChildren(n)) <= 1
        /\ WildChildren(n) # {} => Len(n.children) = 1

\* C25's case: a wildcard was registered under a node that had a param
\* child and is its only child now, and the registration of another param
\* under that node has been refused
C25_Witness ==
    /\ \E n \in AllNodes :
          /\ n.hasParamChild
          /\ WildChildren(n) # {}
          /\ Len(n.children) = 1
    /\ fatal
    /\ lastReg.called
    /\ IsParamSeg(Tokens(lastReg.pattern)[Len(Tokens(lastReg.pattern))])

-----------------------------------------------------------------------------
(* C26 *)

\* the segments of a template before its last one, and its last one
ParentOf(t) == SubSeq(t, 1, Len(t) - 1)
LastOf(t) == t[Len(t)]

EndsInWildcard(pattern) ==
    Tokens(pattern) # <<>> /\ IsWildSeg(LastOf(Tokens(pattern)))

\* the node the last segment of the pattern would be added to has a
\* wildcard child with another name
AddsSecondWildcard(method, pattern) ==
    /\ EndsInWildcard(pattern)
    /\ method \in DOMAIN trees
    /\ LET n == NodeAt(trees[method], ParentOf(Tokens(pattern)))
       IN  /\ n # NilNode
           /\ \E i \in 1..Len(n[1].children) :
                 /\ n[1].children[i].isAny
                 /\ n[1].children[i].pattern # LastOf(Tokens(pattern))

\* the wildcard templates registered with the parent of T and another name
OtherWildcards(method, T) ==
    {O \in Registered(method) :
        /\ EndsInWildcard(O)
        /\ ParentOf(Tokens(O)) = ParentOf(Tokens(T))
        /\ O # T}

\* after the registration of the wildcard template in lastReg, with other
\* wildcards registered at its node before: the node has the new wildcard
\* as its only child, lookups below the node return the new template and
\* no lookup returns one of the others
NewWildcardStands ==
    ( /\ lastReg.called
      /\ ~fatal
      /\ EndsInWildcard(lastReg.pattern)
      /\ OtherWildcards(methodString(lastReg.method), lastReg.pattern) # {} )
    => LET m == methodString(lastReg.method)
           T == lastReg.pattern
           n == NodeAt(trees[m], ParentOf(Tokens(T)))
       IN  /\ n # NilNode
           /\ Len(n[1].children) = 1
           /\ n[1].children[1].pattern = LastOf(Tokens(T))
           /\ (lookup.called /\ lookup.method = m) =>
                 /\ lookup.route \notin OtherWildcards(m, T)
                 /\ ( /\ Len(Tokens(lookup.path)) >= Len(Tokens(T))
                      /\ ParentOf(Tokens(T))
                           = SubSeq(Tokens(lookup.path), 1, Len(Tokens(T)) - 1) )
                    => lookup.route = T

\* C26: registering a wildcard with another name under a node that has a
\* wildcard child is no fatal error and replaces that child: afterwards the
\* node has one child, the new wildcard, lookups below the node return the
\* new template and no lookup returns the old one.
C26_SecondWildcardReplaces ==
    /\ [][\A r \in Registrations :
            (Register(r[1], r[2]) /\ AddsSecondWildcard(methodString(r[1]), r[2]))
                => ~fatal']_vars
    /\ []NewWildcardStands

\* C26's case: /*w was registered, /*v after it, and the lookup of /a/b
\* returns /*v
C26_Witness ==
    /\ ~fatal
    /\ lastReg.called
    /\ lastReg.pattern = <<"/", "*", "v">>
    /\ <<"/", "*", "w">> \in OtherWildcards(methodString(lastReg.method), lastReg.pattern)
    /\ lookup.called
    /\ lookup.path = <<"/", "a", "/", "b">>
    /\ lookup.route = <<"/", "*", "v">>

-----------------------------------------------------------------------------
(* C27 *)

ChildPatterns(n) == [i \in 1..Len(n.children) |-> n.children[i].pattern]

\* in every child list the static children stand before the param child
StaticsBeforeParam ==
    \A n \in AllNodes :
        \A i, j \in 1..Len(n.children) :
            (IsParamSeg(n.children[i].pattern) /\ IsStaticSeg(n.children[j].pattern))
                => j < i

\* what a step does to the child list old of a node, giving new: nothing,
\* a static child put in front, a param child put at the end, or a wildcard
\* child that is alone
ChildListStep(old, new) ==
    \/ new = old
    \/ new # <<>> /\ IsStaticSeg(new[1]) /\ Tail(new) = old
    \/ new # <<>> /\ IsParamSeg(new[Len(new)]) /\ SubSeq(new, 1, Len(new) - 1) = old
    \/ Len(new) = 1 /\ IsWildSeg(new[1])

\* C27: after any sequence of registrations, in every child list the static
\* children come before the param child, and a static child is added in
\* front of the children that were there: the static children stand in
\* most-recently-added-first order.
C27_StaticsInFrontNewestFirst ==
    /\ []StaticsBeforeParam
    /\ [][trees' # trees =>
            \A m \in DOMAIN trees :
                trees'[m] # trees[m] =>
                    LET nodes == Travel(trees'[m])
                    IN  \A i \in 1..Len(nodes) :
                            LET before == NodeAt(trees[m], Tokens(nodes[i].path))
                            IN  before # NilNode =>
                                    ChildListStep(ChildPatterns(before[1]),
                                                  ChildPatterns(nodes[i]))]_vars

\* C27's case: /a, /:x and /b were registered in that order: b stands in
\* front of a, and both before :x
C27_Witness ==
    /\ lastReg.called
    /\ lastReg.pattern = <<"/", "b">>
    /\ methodString(HTTP_GET) \in DOMAIN trees
    /\ ChildPatterns(trees[methodString(HTTP_GET)])
           = << <<"b">>, <<"a">>, <<":", "x">> >>

-----------------------------------------------------------------------------
(* C28 *)

\* C28: a registration that ends in a fatal error leaves every method tree
\* and the handler table as they were before the call.
C28_FatalRegistrationChangesNothing ==
    [][\A r \in Registrations :
          (Register(r[1], r[2]) /\ fatal')
              => (trees' = trees /\ handlers' = handlers)]_vars

\* C28's case: /:x/c was refused for a param sibling; neither a node for :x
\* nor a chain for /:x/c is there, and what was registered before is
C28_Witness ==
    /\ fatal
    /\ lastReg.called
    /\ lastReg.pattern = <<"/", ":", "x", "/", "c">>
    /\ AddsParamSibling(methodString(lastReg.method), lastReg.pattern)
    /\ ~InTree(methodString(lastReg.method), <<"/", ":", "x">>)
    /\ fullPathKey(methodString(lastReg.method), lastReg.pattern) \notin DOMAIN handlers
    /\ DOMAIN handlers # {}

-----------------------------------------------------------------------------
(* C29 *)

\* C29: after any sequence of accepted registrations every template of the
\* handler table has a node in its method's tree whose path is the
\* template, so that some lookup can still select its chain.
C29_EveryKeyHasItsNode ==
    \A m \in DOMAIN trees :
        \A T \in Registered(m) :
            \E i \in 1..Len(Travel(trees[m])) : Travel(trees[m])[i].path = T

-----------------------------------------------------------------------------
(* C30 *)

\* the middlewares of the groups from the i-th on whose base path is a
\* prefix of the template, in the order the groups were created, each
\* group's in the order of its Use calls
RECURSIVE GroupMiddlewares(_, _)
GroupMiddlewares(i, template) ==
    IF i > Len(groups) THEN <<>>
    ELSE IF HasPrefix(template, groups[i].basePath)
         THEN groups[i].middlewares \o GroupMiddlewares(i + 1, template)
         ELSE GroupMiddlewares(i + 1, template)

\* the handlers given to GET
RouteHandlers == {r.handler : r \in EngineRoutes} \ {NilHandler}

\* C30: after a single ApplyMiddleware the chain of each route is the
\* middlewares of every applicable group in group-creation order, each
\* group's in Use order, followed by the route's own handler.
C30_ChainIsGroupsThenHandler ==
    (applies = 1 /\ ~stale /\ ~fatal) =>
        \A key \in DOMAIN handlers :
            LET mws == GroupMiddlewares(1, TemplateOf(key))
            IN  /\ Len(handlers[key]) = Len(mws) + 1
                /\ SubSeq(handlers[key], 1, Len(mws)) = mws
                /\ handlers[key][Len(handlers[key])] \in RouteHandlers

-----------------------------------------------------------------------------
(* C31 *)

\* how often x stands in the sequence s
Occurrences(x, s) == Cardinality({i \in 1..Len(s) : s[i] = x})

\* C31: once ApplyMiddleware has run, whether once or again as Run does
\* through prepareServer, no chain holds a middleware more often than the
\* groups applicable to its route hold it.
C31_NoMiddlewareTwice ==
    (applies >= 1 /\ ~fatal) =>
        \A key \in DOMAIN handlers :
            \A i \in 1..(Len(handlers[key]) - 1) :
                Occurrences(handlers[key][i], handlers[key])
                    <= Occurrences(handlers[key][i],
                                   GroupMiddlewares(1, TemplateOf(key)))

-----------------------------------------------------------------------------
(* C32 *)

\* the template is the base path, or goes on after it with a new segment
UnderBasePath(template, basePath) ==
    \/ template = basePath
    \/ HasPrefix(template, basePath \o <<"/">>)

\* C32: a group's middleware is attached only to the routes of the group
\* and of its sub-groups, whose templates go on after the group's base path
\* at a segment boundary: a route of another group whose template only
\* begins with the characters of the base path does not get it.
C32_MiddlewareOnlyInGroup ==
    \A g \in 1..Len(groups) : \A m \in 1..Len(groups[g].middlewares) :
        \A key \in DOMAIN handlers :
            AheadOfOwnHandler(groups[g].middlewares[m], handlers[key])
                => UnderBasePath(TemplateOf(key), groups[g].basePath)

-----------------------------------------------------------------------------
(* C33 *)

\* the methods that have a route in the handler table
MethodsRegistered ==
    {Split(k, "-")[1] : k \in DOMAIN handlers}

\* the lookup has returned a template that is registered under another
\* method and not under its own
ReturnedFromOtherMethod ==
    /\ lookup.called
    /\ lookup.route # <<>>
    /\ lookup.route \notin Registered(lookup.method)
    /\ \E m \in MethodsRegistered \ {lookup.method} : lookup.route \in Registered(m)

\* a lookup under a method that has no route finds nothing
UnknownMethodNotFound ==
    (lookup.called /\ lookup.method \notin MethodsRegistered)
        => (lookup.route = <<>> /\ lookup.params = EmptyMap)

\* a registration under one method leaves the tree of every other method
\* as it was
OtherTreesUnchanged ==
    \A r \in Registrations :
        Register(r[1], r[2]) =>
            \A m \in DOMAIN trees :
                m # methodString(r[1]) => (m \in DOMAIN trees' /\ trees'[m] = trees[m])

\* C33: a template registered under one method is never returned for a
\* lookup under another method, a registration under one method leaves
\* the tree of every other method unchanged, and a lookup under a method
\* with no registered route returns not-found.
C33_MethodsAreSeparate ==
    /\ []~ReturnedFromOtherMethod
    /\ []UnknownMethodNotFound
    /\ [][OtherTreesUnchanged]_vars

-----------------------------------------------------------------------------
(* C34 *)

\* the non-empty parts of s between its '/' characters, in order
Segments(s) == SelectSeq(Split(s, "/"), LAMBDA part : part # <<>>)

\* the places of the segments that begin with '*'
StarPlaces(segs) == {i \in 1..Len(segs) : segs[i][1] = "*"}

\* the segments up to the first one that begins with '*', that one included
UpToFirstStar(segs) ==
    IF StarPlaces(segs) = {} THEN segs
    ELSE SubSeq(segs, 1, CHOOSE i \in StarPlaces(segs) :
                             \A j \in StarPlaces(segs) : i <= j)

\* C34: parsePattern returns the non-empty '/'-separated segments of its
\* input in order, stopping right after the first segment that begins with
\* '*', so that a segment beginning with '*' is always the last one.
C34_SegmentsUpToFirstWildcard ==
    parsed.called =>
        /\ parsed.parts = UpToFirstStar(Segments(parsed.pattern))
        /\ \A i \in 1..Len(parsed.parts) :
              /\ parsed.parts[i] # <<>>
              /\ \A k \in 1..Len(parsed.parts[i]) : parsed.parts[i][k] # "/"
              /\ parsed.parts[i][1] = "*" => i = Len(parsed.parts)

\* a string with a segment after its first wildcard has been parsed
C34_Witness ==
    /\ parsed.called
    /\ Len(Segments(parsed.pattern)) > Len(parsed.parts)
    /\ Len(parsed.parts) >= 2

-----------------------------------------------------------------------------
(* C35 *)

\* C35: after Shutdown on a running engine, the goroutine that
\* prepareServer started calls the server's Shutdown exactly once and then
\* terminates: it never makes a second call, and once it has made the call
\* it has returned.
C35_MonitorShutsDownOnceAndEnds ==
    srv.shutdown = "closed" =>
        /\ srv.shutdowns <= 1
        /\ srv.shutdowns = 1 => srv.monitor = "returned"

-----------------------------------------------------------------------------
(* C36 *)

\* goroutine g holds the store's lock as the access needs it: to write,
\* the lock itself; to read, the lock or the read lock
HoldsLockFor(g, access) ==
    IF access.write THEN mu.writer = g
    ELSE mu.writer = g \/ g \in mu.readers

\* C36: the in-memory store is thread-safe: in every interleaving of Read,
\* Insert, UpdateSID, Delete and GC calls, a goroutine that is about to
\* read or write the id index, the queue or a stored session holds the
\* store's lock.
C36_EveryAccessUnderLock ==
    \A g \in Goroutines :
        \A access \in Accesses(gos[g]) : HoldsLockFor(g, access)

-----------------------------------------------------------------------------
(* C37, C38, C39 *)

\* the list elements that the store holds: those of the queue and those
\* that the id index refers to
QueueElements == {store.quene[i] : i \in 1..Len(store.quene)}
IndexElements == {store.cache[id] : id \in DOMAIN store.cache}

\* the session of element e was last accessed maxLifeTime seconds ago or
\* more
Expired(e, maxLifeTime) ==
    LET last == sessionGet(store.sessions[e], lastAccessTime)
    IN  last # <<>> /\ last[1] + maxLifeTime <= now

\* this step is the return of goroutine g from GC
GCReturns(g) ==
    /\ gos[g].op = "GC"
    /\ gos'[g] = NoCall

\* C37: when GC(maxLifeTime) returns, the store holds no session whose
\* last access is maxLifeTime seconds or more in the past, whatever Insert,
\* Read, UpdateSID and Delete calls came before.
C37_GCLeavesNoExpiredSession ==
    [][\A g \in Goroutines, maxLifeTime \in LifeTimes :
          (GCReturns(g) /\ gos[g].maxLifeTime = maxLifeTime) =>
              \A e \in (QueueElements \cup IndexElements)' :
                  ~Expired(e, maxLifeTime)']_vars

\* C38: GC always terminates: a round of its loop that does not stop the
\* loop has removed the element that was in front of the queue, so that
\* GC is back at the head of its loop only without that element.
C38_EveryRoundRemovesTheFront ==
    \A g \in Goroutines :
        (gos[g].op = "GC" /\ gos[g].pc = "front" /\ gos[g].rounds > 0)
            => gos[g].element \notin QueueElements

\* the id index and the queue agree
IndexAndQueueAgree ==
    /\ \A e \in QueueElements :
          Cardinality({id \in DOMAIN store.cache : store.cache[id] = e}) = 1
    /\ \A id \in DOMAIN store.cache : store.cache[id] \in QueueElements
    /\ \A i, j \in 1..Len(store.quene) :
          store.quene[i] = store.quene[j] => i = j

\* C39: after any sequence of Insert, UpdateSID and Delete calls the id
\* index and the queue agree: every element of the queue is referred to by
\* exactly one id and every id refers to an element of the queue.
C39_IndexAndQueueAgree ==
    (\A g \in Goroutines : gos[g].pc = "idle") => IndexAndQueueAgree

-----------------------------------------------------------------------------
(* C40 *)

\* the setting as the caller gave it, or the default when it is unset
OrDefault(settings, name, unset) ==
    IF settings[name] = unset THEN DefaultSettings[name] ELSE settings[name]

\* every unset setting replaced by its own default
WithDefaults(settings) ==
    [Name |-> OrDefault(settings, "Name", ""),
     StoreType |-> OrDefault(settings, "StoreType", ""),
     MaxLifeTime |-> OrDefault(settings, "MaxLifeTime", 0),
     LapseTime |-> OrDefault(settings, "LapseTime", 0),
     TokenKey |-> OrDefault(settings, "TokenKey", ""),
     TokenValue |-> OrDefault(settings, "TokenValue", "")]

\* C40: the manager that NewManager makes has each unset setting replaced
\* by that setting's own default (Name "SID", StoreType "InMemory",
\* MaxLifeTime 86400, LapseTime 1800, TokenKey "Token", TokenValue
\* "User-Agent") and every setting the caller provided unchanged.
C40_UnsetSettingsGetTheirDefaults ==
    (made.called /\ made.created) =>
        made.result[1].settings = WithDefaults(made.settings)

====
